---- MODULE Spec2Model ----
(***************************************************************************)
(* A model of the founder-enrichment scripts:                              *)
(*   - RelevanceFilter.filter_results   (scripts/enrichment)               *)
(*   - FounderEnrichmentPipeline        (scripts/enrich)                   *)
(*   - FounderScraper.scrape_all / scrape_and_save (scripts/scrapers/apis) *)
(*   - batch_scrape                     (scripts/batch_scrape.py)          *)
(* Python dicts are functions whose domain is the set of keys present;     *)
(* Python lists are sequences (index i in Python is index i+1 here).       *)
(***************************************************************************)
EXTENDS Integers, Sequences, FiniteSets, TLC

VARIABLES
    \* ---- RelevanceFilter.filter_results
    fResults,      \* the `results` argument (list of candidate dicts)
    fResponse,     \* what the chat-completion call does (raises / returns text)
    fMinScore,     \* the `min_relevance_score` argument
    fOutcome,      \* how the call ended: returned value or raised
    fInputAfter,   \* the list object passed as results, as it is after the call
    fPc,           \* "call" before the call, "returned" after it
    \* ---- FounderEnrichmentPipeline
    eEnv,          \* the credentials present in the process environment
    eUsePb,        \* the constructor argument use_phantombuster
    eClients,      \* the clients the constructor built (those that are not None)
    eProfile,      \* the arguments of the running enrich_profile call
    eData,         \* the enriched_data dict of the running call
    eCalls,        \* the adapter calls made by the running call, in order
    eSettled,      \* per source, how its call of the running call ended
    ePc,           \* where the pipeline is
    \* ---- FounderScraper.scrape_all
    sScraper,      \* which optional clients the scraper holds (youtube, google)
    sArgs,         \* the arguments of the call
    sOracle,       \* what each outbound call of this run does
    sOutcome,      \* how scrape_all ended
    sPc,           \* "call" before the call, "returned" after it
    \* ---- batch_scrape
    bEnv,          \* the credentials present in the process environment
    bFounders,     \* the rows of the CSV file
    bStartFrom,    \* the --start argument
    bMaxResults,   \* the --max argument
    bFs,           \* the files under data/, path -> content
    bFsBefore,     \* bFs as it was when the current run started
    bRun,          \* 1 for the first run of the command, 2 for the second
    bScraper,      \* the FounderScraper of the current run
    bI,            \* the number of rows the loop has gone through
    bStats,        \* the counters success, failed, skipped
    bDisp,         \* per run and row, what the loop did with the row
    bLast,         \* the last scrape_and_save call: row, io, all sources empty,
                   \* what the sources answered and what scrape_all returned
    bPc,           \* where the batch is
    \* ---- the call sites of the relevance filter
    rSite,         \* which call site runs
    rKey,          \* OPENAI_API_KEY is set (the transformer has a client)
    rUseLlm,       \* the use_llm_filter argument
    rImportable,   \* the RelevanceFilter module named by the import is there
    rResults,      \* the candidates (all_videos / all_results)
    rResponse,     \* what the chat completion does when asked
    rMinScore,     \* the min_relevance_score argument
    rOutcome,      \* the list the call site goes on with
    rCalls,        \* the number of chat completions asked for
    rPc,           \* "call" before the call, "returned" after it
    \* ---- the normalizers of the search adapters
    nProvider,     \* whose record is normalized
    nItem,         \* the provider's raw record
    nOutcome,      \* the normalized record, or raised
    nPc,           \* "call" before the call, "returned" after it
    \* ---- PhantombusterClient.wait_for_completion
    wArgs,         \* timeout and poll_interval, in ticks
    wStart,        \* start: the clock when the wait began
    wNow,          \* time.time()
    wInitial,      \* initial_launches
    wOutcome,      \* what the call returned or raised
    wPc,           \* the position in the loop
    \* ---- the remote agent wait_for_completion polls
    jLaunches,     \* nbLaunches: the runs the agent has counted
    jEnd,          \* lastEndType
    jRun,          \* the launched run: idle, launched, running, ended
    jSeen,         \* a poll was answered after the run had ended as finished
    \* ---- the category buckets of the two search results
    oSite,         \* "youtube" or "google"
    oFiltered,     \* filtered_videos / filtered_results: the final list
    oResults,      \* the dict the search returns
    oPc            \* "organize" before the loop, "returned" after it

fvars == <<fResults, fResponse, fMinScore, fOutcome, fInputAfter, fPc>>

evars == <<eEnv, eUsePb, eClients, eProfile, eData, eCalls, eSettled, ePc>>

svars == <<sScraper, sArgs, sOracle, sOutcome, sPc>>

bvars == <<bEnv, bFounders, bStartFrom, bMaxResults, bFs, bFsBefore, bRun, bScraper, bI,
           bStats, bDisp, bLast, bPc>>

rvars == <<rSite, rKey, rUseLlm, rImportable, rResults, rResponse, rMinScore, rOutcome,
           rCalls, rPc>>

nvars == <<nProvider, nItem, nOutcome, nPc>>

wvars == <<wArgs, wStart, wNow, wInitial, wOutcome, wPc>>

jvars == <<jLaunches, jEnd, jRun, jSeen>>

ovars == <<oSite, oFiltered, oResults, oPc>>

vars == <<fvars, evars, svars, bvars, rvars, nvars, wvars, jvars, ovars>>

----------------------------------------------------------------------------
(* Python dict and list helpers *)

\* d[k] = v on a dict d
Put(d, k, v) == [x \in (DOMAIN d) \cup {k} |-> IF x = k THEN v ELSE d[x]]

\* k in d
Has(d, k) == k \in DOMAIN d

\* the set of the elements of a list
Elems(s) == {s[i] : i \in 1..Len(s)}

\* s[:n]
Prefix(s, n) == SubSeq(s, 1, IF Len(s) < n THEN Len(s) ELSE n)

\* [r["url"] for r in records]
UrlsOf(records) == [k \in 1..Len(records) |-> records[k].url]

----------------------------------------------------------------------------
(* RelevanceFilter.filter_results *)

\* The candidate dicts a search adapter hands to the filter: title and url.
Candidate(n) ==
    [title |-> IF n = 1 THEN "t1" ELSE IF n = 2 THEN "t2" ELSE IF n = 3 THEN "t3" ELSE "t4",
     url   |-> IF n = 1 THEN "u1" ELSE IF n = 2 THEN "u2" ELSE IF n = 3 THEN "u3" ELSE "u4"]

MaxResults == 2
MaxEvals == 2

\* the candidate lists tried: the first n candidates, n = 0..MaxResults
ResultLists == {[i \in 1..n |-> Candidate(i)] : n \in 0..MaxResults}

\* the scores the model may answer with; nothing bounds them to the 0-100 the
\* prompt asks for
Scores == {20, 60, 90, 150}
MinScores == {50, 70}

\* indices the model may answer with: in range, and out of range on both sides
Indices == (0 - (MaxResults + 1))..MaxResults

\* One item of the "evaluations" array.  A key may be missing: an item
\* without "index", or without "relevance_score".
EvalItems ==
    {[category |-> "interview"]}
    \cup {[index |-> i, category |-> "interview"] : i \in Indices}
    \cup {[index |-> i, relevance_score |-> s, category |-> "interview"] :
             i \in Indices, s \in Scores}

EvalLists == UNION {[1..n -> EvalItems] : n \in 0..MaxEvals}

\* The text of the model's message, as tokens: a JSON document, possibly
\* wrapped in a Markdown code fence, possibly with the language tag "json".
\* A JSON document is "invalid" (not JSON), an object without the key
\* "evaluations", or an object with an "evaluations" array.
JsonDocs ==
    {[json |-> "invalid", evaluations |-> <<>>],
     [json |-> "no_evaluations", evaluations |-> <<>>]}
    \cup {[json |-> "object", evaluations |-> e] : e \in EvalLists}

PlainText(doc) == <<[tok |-> "json_doc", doc |-> doc]>>
FenceTok == [tok |-> "fence", doc |-> [json |-> "invalid", evaluations |-> <<>>]]
TagTok == [tok |-> "json", doc |-> [json |-> "invalid", evaluations |-> <<>>]]
FencedText(doc) == <<FenceTok>> \o PlainText(doc) \o <<FenceTok>>
TaggedFencedText(doc) == <<FenceTok, TagTok>> \o PlainText(doc) \o <<FenceTok>>

\* What self.client.chat.completions.create does: raises, or returns a message.
Responses ==
    {[kind |-> "api_error", content |-> <<>>]}
    \cup {[kind |-> "message", content |-> PlainText(d)] : d \in JsonDocs}
    \cup {[kind |-> "message", content |-> FencedText(d)] :
             d \in {x \in JsonDocs : x.json # "object" \/ Len(x.evaluations) <= 1}}
    \cup {[kind |-> "message", content |-> TaggedFencedText(d)] :
             d \in {x \in JsonDocs : x.json # "object" \/ Len(x.evaluations) <= 1}}

\* content.split("fence")[1]: the tokens between the first and the second fence
RECURSIVE UpToFence(_)
UpToFence(toks) ==
    IF toks = <<>> \/ Head(toks).tok = "fence" THEN <<>>
    ELSE <<Head(toks)>> \o UpToFence(Tail(toks))

\* lines 117-120: strip a Markdown code fence and the "json" tag
StripFence(content) ==
    IF content # <<>> /\ Head(content).tok = "fence"
    THEN LET inner == UpToFence(Tail(content))
         IN  IF inner # <<>> /\ Head(inner).tok = "json" THEN Tail(inner) ELSE inner
    ELSE content

\* json.loads(content)["evaluations"]: ok is FALSE when it raises
LoadEvaluations(content) ==
    IF Len(content) = 1 /\ content[1].tok = "json_doc" /\ content[1].doc.json = "object"
    THEN [ok |-> TRUE, evaluations |-> content[1].doc.evaluations]
    ELSE [ok |-> FALSE, evaluations |-> <<>>]

\* results[idx] with Python's indexing: a negative idx counts from the end
PyIndexOk(results, idx) == idx < Len(results) /\ idx >= 0 - Len(results)
PyIndex(results, idx) ==
    IF idx >= 0 THEN results[idx + 1] ELSE results[Len(results) + idx + 1]

\* lines 127-135 for one eval_item: does the loop body raise on it
EvalItemRaises(results, item) ==
    \/ ~Has(item, "index")
    \/ /\ Has(item, "index")
       /\ item.index < Len(results)
       /\ \/ ~PyIndexOk(results, item.index)
          \/ ~Has(item, "relevance_score")
          \/ ~Has(item, "category")

\* lines 129-132: the annotated copy of results[idx]
Annotate(results, item) ==
    Put(Put(Put(PyIndex(results, item.index),
                "relevance_score", item.relevance_score),
            "category", item.category),
        "relevance_reason", IF Has(item, "reason") THEN item.reason ELSE "")

\* a loop that keeps the candidates scored at most the threshold
RECURSIVE MergeAtMostThreshold(_, _, _)
MergeAtMostThreshold(results, evaluations, min_relevance_score) ==
    IF evaluations = <<>> THEN <<>>
    ELSE LET item == Head(evaluations)
             rest == MergeAtMostThreshold(results, Tail(evaluations),
                                          min_relevance_score)
         IN  IF item.index < Len(results)
                /\ item.relevance_score <= min_relevance_score
             THEN <<Annotate(results, item)>> \o rest
             ELSE rest

\* lines 125-135: the loop over the evaluations (no item raises)
RECURSIVE MergeEvaluations(_, _, _)
MergeEvaluations(results, evaluations, min_relevance_score) ==
    IF evaluations = <<>> THEN <<>>
    ELSE LET item == Head(evaluations)
             rest == MergeEvaluations(results, Tail(evaluations), min_relevance_score)
         IN  IF item.index < Len(results)
                /\ item.relevance_score >= min_relevance_score
             THEN <<Annotate(results, item)>> \o rest
             ELSE rest

\* list.sort(key=relevance_score, reverse=True): stable, descending
RECURSIVE InsertByScore(_, _)
InsertByScore(sorted, r) ==
    IF sorted = <<>> THEN <<r>>
    ELSE IF Head(sorted).relevance_score >= r.relevance_score
         THEN <<Head(sorted)>> \o InsertByScore(Tail(sorted), r)
         ELSE <<r>> \o sorted

RECURSIVE SortByScore(_)
SortByScore(s) ==
    IF s = <<>> THEN <<>>
    ELSE InsertByScore(SortByScore(SubSeq(s, 1, Len(s) - 1)), s[Len(s)])

Returned(v) == [kind |-> "return", value |-> v]
Raised == [kind |-> "raise", value |-> <<>>]

\* a fallback that fails closed: every candidate is dropped
FilterFallbackDropsAll(results) == Returned(<<>>)

\* lines 141-144: the except branch
FilterFallback(results) == Returned(results)

\* lines 122-139: the try body after the message text is cleaned
FilterMerge(results, content, min_relevance_score) ==
    LET loaded == LoadEvaluations(content)
    IN  IF ~loaded.ok THEN FilterFallback(results)
        ELSE IF \E k \in 1..Len(loaded.evaluations) :
                    EvalItemRaises(results, loaded.evaluations[k])
        THEN FilterFallback(results)
        ELSE Returned(SortByScore(
                 MergeEvaluations(results, loaded.evaluations, min_relevance_score)))

\* RelevanceFilter.filter_results
filter_results(results, response, min_relevance_score) ==
    IF results = <<>> THEN Returned(<<>>)
    ELSE IF response.kind = "api_error" THEN FilterFallback(results)
    ELSE FilterMerge(results, StripFence(response.content), min_relevance_score)

\* the place of results[idx] in the list
PyPosition(results, idx) == IF idx >= 0 THEN idx + 1 ELSE Len(results) + idx + 1

\* a variant of the loop body that writes the three fields to results[idx]
\* itself
AnnotateInPlace(results, item) ==
    [results EXCEPT ![PyPosition(results, item.index)] = Annotate(results, item)]

\* lines 128-132: result = results[idx].copy(), and the three fields are
\* written to the copy; the list passed in after these statements
AnnotateCopy(results, item) == results

\* lines 125-135: the list passed in after the loop, which stops at the
\* first item that raises
RECURSIVE InputAfterLoop(_, _)
InputAfterLoop(results, evaluations) ==
    IF evaluations = <<>> THEN results
    ELSE LET item == Head(evaluations)
         IN  IF EvalItemRaises(results, item) THEN results
             ELSE IF item.index < Len(results)
             THEN InputAfterLoop(AnnotateCopy(results, item), Tail(evaluations))
             ELSE InputAfterLoop(results, Tail(evaluations))

\* the list passed to filter_results, after the call: nothing but the loop
\* could write to it (the sort of line 138 sorts the new list)
InputAfter(results, response) ==
    IF results = <<>> \/ response.kind = "api_error" THEN results
    ELSE LET loaded == LoadEvaluations(StripFence(response.content))
         IN  IF loaded.ok THEN InputAfterLoop(results, loaded.evaluations) ELSE results

NoOutcome == [kind |-> "none", value |-> <<>>]

FilterInit ==
    /\ fResults \in ResultLists
    /\ fResponse \in Responses
    /\ fMinScore \in MinScores
    /\ fOutcome = NoOutcome
    /\ fInputAfter = fResults
    /\ fPc = "call"

FilterCall ==
    /\ fPc = "call"
    /\ UNCHANGED <<evars, svars, bvars, rvars, nvars, wvars, jvars, ovars>>
    /\ fOutcome' = filter_results(fResults, fResponse, fMinScore)
    /\ fInputAfter' = InputAfter(fResults, fResponse)
    /\ fPc' = "returned"
    /\ UNCHANGED <<fResults, fResponse, fMinScore>>

FilterIdle ==
    /\ fResults = <<>>
    /\ fResponse = [kind |-> "api_error", content |-> <<>>]
    /\ fMinScore = 50
    /\ fOutcome = NoOutcome
    /\ fInputAfter = <<>>
    /\ fPc = "idle"


----------------------------------------------------------------------------
(* FounderEnrichmentPipeline: __init__ and enrich_profile *)

Keys == {"EXA_API_KEY", "PHANTOMBUSTER_API_KEY", "YOUTUBE_API_KEY", "GOOGLE_API_KEY",
         "GOOGLE_SEARCH_ENGINE_ID", "LISTENNOTES_API_KEY"}

\* the credentials each client's constructor requires (it raises ValueError
\* when one is missing)
Requires(client) ==
    IF client = "exa" THEN {"EXA_API_KEY"}
    ELSE IF client = "pb" THEN {"PHANTOMBUSTER_API_KEY"}
    ELSE IF client = "youtube" THEN {"YOUTUBE_API_KEY"}
    ELSE IF client = "google" THEN {"GOOGLE_API_KEY", "GOOGLE_SEARCH_ENGINE_ID"}
    ELSE {"LISTENNOTES_API_KEY"}

ClientRaises(client, env) == ~(Requires(client) \subseteq env)

\* enrich_pipeline.py lines 24-49.  The three media clients are built inside
\* try/except ValueError; PhantombusterClient() is not.
PipelineConstruct(use_phantombuster, env) ==
    IF use_phantombuster /\ ClientRaises("pb", env)
    THEN [raised |-> TRUE, clients |-> {}]
    ELSE [raised |-> FALSE,
          clients |-> (IF use_phantombuster THEN {"pb"} ELSE {})
                      \cup {c \in {"youtube", "google", "podcast"} : ~ClientRaises(c, env)}]

\* the sources of enrich_profile, with the enriched_data key each one fills,
\* the client it calls and the name it appends to sources_used
Sources == {"linkedin_profile", "linkedin_activity", "youtube", "google_search", "podcasts"}

DataKey(source) ==
    IF source = "linkedin_profile" THEN "linkedin_full"
    ELSE IF source = "linkedin_activity" THEN "linkedin_posts"
    ELSE IF source = "youtube" THEN "youtube_results"
    ELSE IF source = "google_search" THEN "google_results"
    ELSE "podcast_results"

ClientOf(source) ==
    IF source \in {"linkedin_profile", "linkedin_activity"} THEN "pb"
    ELSE IF source = "youtube" THEN "youtube"
    ELSE IF source = "google_search" THEN "google"
    ELSE "podcast"

\* an empty dict or list
Empty == <<>>

\* lines 53-60
InitialData ==
    [linkedin_full |-> Empty, linkedin_posts |-> Empty, youtube_results |-> Empty,
     google_results |-> Empty, podcast_results |-> Empty, sources_used |-> <<>>]

\* what an adapter call can do: raise, or return its result dict
\* (total_found: the number of results it holds)
CallOutcomes ==
    {[kind |-> "raise", value |-> Empty],
     [kind |-> "return", value |-> [total_found |-> 0]],
     [kind |-> "return", value |-> [total_found |-> 2]]}

\* a block that records the source before its call has returned
TryCallRecordsFirst(data, source, outcome) ==
    IF outcome.kind = "raise"
    THEN [data |-> [data EXCEPT !.sources_used = Append(@, source)], escaped |-> FALSE]
    ELSE [data |-> [Put(data, DataKey(source), outcome.value)
                        EXCEPT !.sources_used = Append(@, source)],
          escaped |-> FALSE]

\* one try/except block of enrich_profile (lines 66-73, 76-83, 89-96,
\* 100-108, 112-119): the result is stored and the source recorded only
\* after the call returned; an exception is caught and printed
TryCall(data, source, outcome) ==
    IF outcome.kind = "raise"
    THEN [data |-> data, escaped |-> FALSE]
    ELSE [data |-> [Put(data, DataKey(source), outcome.value)
                        EXCEPT !.sources_used = Append(@, source)],
          escaped |-> FALSE]

\* line 65: the Phantombuster block runs
UsesPhantombuster(profile, clients) ==
    ~profile.skip_phantombuster /\ "pb" \in clients /\ profile.has_linkedin_url

\* an order in which the activity extractor runs after the search sources
NextStepActivityLast(step) ==
    IF step = "linkedin_profile" THEN "youtube"
    ELSE IF step = "youtube" THEN "google_search"
    ELSE IF step = "google_search" THEN "podcasts"
    ELSE IF step = "podcasts" THEN "linkedin_activity"
    ELSE "done"

\* the order of the blocks of enrich_profile (lines 64-119)
NextStep(step) ==
    IF step = "linkedin_profile" THEN "linkedin_activity"
    ELSE IF step = "linkedin_activity" THEN "youtube"
    ELSE IF step = "youtube" THEN "google_search"
    ELSE IF step = "google_search" THEN "podcasts"
    ELSE "done"

NoneSettled == [s \in Sources |-> [kind |-> "none", value |-> Empty]]

EnrichInit ==
    /\ eEnv \in SUBSET (Keys \ {"EXA_API_KEY"})
    /\ eUsePb \in BOOLEAN
    /\ eClients = {}
    /\ eProfile = [has_linkedin_url |-> FALSE, skip_phantombuster |-> FALSE]
    /\ eData = InitialData
    /\ eCalls = <<>>
    /\ eSettled = NoneSettled
    /\ ePc = "new"

\* FounderEnrichmentPipeline(use_phantombuster)
PipelineInit ==
    /\ ePc = "new"
    /\ LET built == PipelineConstruct(eUsePb, eEnv)
       IN  /\ eClients' = built.clients
           /\ ePc' = IF built.raised THEN "ctor_raised" ELSE "ready"
    /\ UNCHANGED <<eEnv, eUsePb, eProfile, eData, eCalls, eSettled>>
    /\ UNCHANGED <<fvars, svars, bvars, rvars, nvars, wvars, jvars, ovars>>

\* enrich_profile(profile, skip_phantombuster) is entered (lines 51-62)
EnrichStart ==
    /\ ePc \in {"ready", "done"}
    /\ \E url \in BOOLEAN, skip \in BOOLEAN :
           eProfile' = [has_linkedin_url |-> url, skip_phantombuster |-> skip]
    /\ eData' = InitialData
    /\ eCalls' = <<>>
    /\ eSettled' = NoneSettled
    /\ ePc' = "linkedin_profile"
    /\ UNCHANGED <<eEnv, eUsePb, eClients>>
    /\ UNCHANGED <<fvars, svars, bvars, rvars, nvars, wvars, jvars, ovars>>

\* a block whose client is configured: the call is made and settles
CallSource(source) ==
    \E outcome \in CallOutcomes :
        LET r == TryCall(eData, source, outcome)
        IN  /\ eCalls' = Append(eCalls, source)
            /\ eSettled' = [eSettled EXCEPT ![source] = outcome]
            /\ eData' = r.data
            /\ ePc' = IF r.escaped THEN "raised" ELSE NextStep(source)
            /\ UNCHANGED <<eEnv, eUsePb, eClients, eProfile>>

\* a block whose client is None: nothing is called
SkipSource(next) ==
    /\ ePc' = next
    /\ UNCHANGED <<eEnv, eUsePb, eClients, eProfile, eData, eCalls, eSettled>>

\* lines 65-73: the LinkedIn profile scraper
StepLinkedinProfile ==
    /\ ePc = "linkedin_profile"
    /\ UsesPhantombuster(eProfile, eClients)
    /\ CallSource("linkedin_profile")
    /\ UNCHANGED <<fvars, svars, bvars, rvars, nvars, wvars, jvars, ovars>>

\* lines 75-83: the LinkedIn activity extractor
StepLinkedinActivity ==
    /\ ePc = "linkedin_activity"
    /\ CallSource("linkedin_activity")
    /\ UNCHANGED <<fvars, svars, bvars, rvars, nvars, wvars, jvars, ovars>>

\* lines 84-85: the else branch of line 65
SkipPhantombuster ==
    /\ ePc = "linkedin_profile"
    /\ ~UsesPhantombuster(eProfile, eClients)
    /\ SkipSource(NextStep("linkedin_activity"))
    /\ UNCHANGED <<fvars, svars, bvars, rvars, nvars, wvars, jvars, ovars>>

\* lines 87-96
StepYouTube ==
    /\ ePc = "youtube"
    /\ "youtube" \in eClients
    /\ CallSource("youtube")
    /\ UNCHANGED <<fvars, svars, bvars, rvars, nvars, wvars, jvars, ovars>>

SkipYouTube ==
    /\ ePc = "youtube"
    /\ "youtube" \notin eClients
    /\ SkipSource(NextStep("youtube"))
    /\ UNCHANGED <<fvars, svars, bvars, rvars, nvars, wvars, jvars, ovars>>

\* lines 98-108
StepGoogle ==
    /\ ePc = "google_search"
    /\ "google" \in eClients
    /\ CallSource("google_search")
    /\ UNCHANGED <<fvars, svars, bvars, rvars, nvars, wvars, jvars, ovars>>

SkipGoogle ==
    /\ ePc = "google_search"
    /\ "google" \notin eClients
    /\ SkipSource(NextStep("google_search"))
    /\ UNCHANGED <<fvars, svars, bvars, rvars, nvars, wvars, jvars, ovars>>

\* lines 110-121
StepPodcasts ==
    /\ ePc = "podcasts"
    /\ "podcast" \in eClients
    /\ CallSource("podcasts")
    /\ UNCHANGED <<fvars, svars, bvars, rvars, nvars, wvars, jvars, ovars>>

SkipPodcasts ==
    /\ ePc = "podcasts"
    /\ "podcast" \notin eClients
    /\ SkipSource(NextStep("podcasts"))
    /\ UNCHANGED <<fvars, svars, bvars, rvars, nvars, wvars, jvars, ovars>>

EnrichIdle ==
    /\ eEnv = {}
    /\ eUsePb = FALSE
    /\ eClients = {}
    /\ eProfile = [has_linkedin_url |-> FALSE, skip_phantombuster |-> FALSE]
    /\ eData = InitialData
    /\ eCalls = <<>>
    /\ eSettled = NoneSettled
    /\ ePc = "idle"

EnrichNext ==
    \/ PipelineInit
    \/ EnrichStart
    \/ StepLinkedinProfile
    \/ StepLinkedinActivity
    \/ SkipPhantombuster
    \/ StepYouTube
    \/ SkipYouTube
    \/ StepGoogle
    \/ SkipGoogle
    \/ StepPodcasts
    \/ SkipPodcasts

----------------------------------------------------------------------------
(* FounderScraper.scrape_all *)

\* the most hits one source returns for one search
MaxPerSource == 2

\* the URLs the sources may return
Urls == {"a.io/1", "b.io/2", "c.io/3", "youtube.com/v"}

\* the characters of a URL
UrlChars(url) ==
    IF url = "a.io/1" THEN <<"a", ".", "i", "o", "/", "1">>
    ELSE IF url = "b.io/2" THEN <<"b", ".", "i", "o", "/", "2">>
    ELSE IF url = "c.io/3" THEN <<"c", ".", "i", "o", "/", "3">>
    ELSE <<"y", "o", "u", "t", "u", "b", "e", ".", "c", "o", "m", "/", "v">>

\* line 150: skip_domains
skip_domains ==
    <<<<"y", "o", "u", "t", "u", "b", "e", ".", "c", "o", "m">>,
      <<"t", "w", "i", "t", "t", "e", "r", ".", "c", "o", "m">>,
      <<"x", ".", "c", "o", "m">>,
      <<"f", "a", "c", "e", "b", "o", "o", "k", ".", "c", "o", "m">>,
      <<"l", "i", "n", "k", "e", "d", "i", "n", ".", "c", "o", "m">>,
      <<"i", "n", "s", "t", "a", "g", "r", "a", "m", ".", "c", "o", "m">>>>

\* str.lower() on one character (the URLs here hold no upper-case letter
\* other than these)
LowerChar(c) ==
    IF c = "A" THEN "a" ELSE IF c = "B" THEN "b" ELSE IF c = "C" THEN "c"
    ELSE IF c = "X" THEN "x" ELSE IF c = "Y" THEN "y" ELSE c

Lower(text) == [k \in 1..Len(text) |-> LowerChar(text[k])]

\* pattern in text (substring test)
Contains(text, pattern) ==
    \E k \in 0..(Len(text) - Len(pattern)) :
        SubSeq(text, k + 1, k + Len(pattern)) = pattern

\* line 151: any(domain in url.lower() for domain in skip_domains)
IsSkippedDomain(url) ==
    \E d \in 1..Len(skip_domains) : Contains(Lower(UrlChars(url)), skip_domains[d])

\* exa.py lines 107-115: the category guessed from the lower-cased URL
CategoryOfText(chars) ==
    LET u == Lower(chars)
    IN  IF \/ Contains(u, <<"p", "o", "d", "c", "a", "s", "t">>)
           \/ Contains(u, <<"s", "p", "o", "t", "i", "f", "y">>)
        THEN "podcast"
        ELSE IF \/ Contains(u, <<"y", "o", "u", "t", "u", "b", "e", ".", "c", "o", "m">>)
                \/ Contains(u, <<"y", "o", "u", "t", "u", ".", "b", "e">>)
        THEN "video"
        ELSE IF \/ Contains(u, <<"m", "e", "d", "i", "u", "m", ".", "c", "o", "m">>)
                \/ Contains(u, <<"s", "u", "b", "s", "t", "a", "c", "k">>)
                \/ Contains(u, <<"b", "l", "o", "g">>)
        THEN "blog"
        ELSE "article"

ExaCategory(url) == CategoryOfText(UrlChars(url))

\* the record each adapter builds for one hit
ExaRecord(url) == [title |-> "exa title", url |-> url, category |-> ExaCategory(url)]
GoogleRecord(url) == [title |-> "google title", url |-> url, snippet |-> "snippet"]
VideoRecord(url) == [title |-> "video title", url |-> url, video_id |-> "v"]

\* lists of distinct URLs of at most n elements
RECURSIVE UrlLists(_, _)
UrlLists(urls, n) ==
    IF n = 0 THEN {<<>>}
    ELSE {<<>>} \cup UNION {{<<u>> \o rest : rest \in UrlLists(urls \ {u}, n - 1)} : u \in urls}

Raise == [kind |-> "raise", value |-> <<>>]

\* ExaClient.search_founder_content: raises (exa.py 133-138) or returns
\* the dict of lines 123-131
ExaOutcomes ==
    {Raise} \cup
    {[kind |-> "return",
      value |-> [results |-> [k \in 1..Len(l) |-> ExaRecord(l[k])], total_found |-> Len(l)]] :
         l \in UrlLists(Urls, MaxPerSource)}

\* YouTubeClient.search_person_content: raises or returns the dict of
\* youtube.py 140-149 (videos are deduplicated by id)
YouTubeOutcomes ==
    {Raise,
     [kind |-> "return", value |-> [all_videos |-> <<>>, total_found |-> 0]],
     [kind |-> "return",
      value |-> [all_videos |-> <<VideoRecord("youtube.com/v")>>, total_found |-> 1]]}

\* GoogleSearchClient.search_media_appearances: raises or returns the dict
\* of google_search.py 205-214 (URLs deduplicated, lines 170-177)
GoogleOutcomes ==
    {Raise} \cup
    {[kind |-> "return",
      value |-> [all_results |-> [k \in 1..Len(l) |-> GoogleRecord(l[k])], total_found |-> Len(l)]] :
         l \in UrlLists(Urls, MaxPerSource)}

\* JinaReader.read_url (jina.py 44-83): the dict it returns, or an exception
JinaOutcomes ==
    {[kind |-> "return", value |-> [success |-> TRUE, title |-> "page title", word_count |-> 7]],
     [kind |-> "return", value |-> [success |-> TRUE, title |-> "", word_count |-> 7]],
     [kind |-> "return", value |-> [success |-> FALSE, error |-> "HTTP 500"]],
     Raise}

\* what Jina does for each URL; a URL that is not handed to Jina is never
\* read, and its entry is fixed
JinaFor(asked) ==
    {[u \in Urls |-> IF u \in asked THEN f[u] ELSE Raise] : f \in [asked -> JinaOutcomes]}

\* d.get(key, default) on the dict an adapter returned
Get(d, key, default) == IF Has(d, key) THEN d[key] ELSE default

\* a variant in which the entry of a source that did not answer still holds
\* a record of an earlier call
SourceEntryKeepsStale(configured, outcome, listKey) ==
    IF configured /\ outcome.kind = "return"
    THEN [results |-> Get(outcome.value, listKey, <<>>),
          total |-> Get(outcome.value, "total_found", 0)]
    ELSE [results |-> <<ExaRecord("c.io/3")>>, total |-> 1]

\* lines 78-80 with lines 86-96, 101-110, 117-126: the entry of a source
\* starts empty and is filled when the source's call returns
SourceEntry(configured, outcome, listKey) ==
    IF configured /\ outcome.kind = "return"
    THEN [results |-> Get(outcome.value, listKey, <<>>),
          total |-> Get(outcome.value, "total_found", 0)]
    ELSE [results |-> <<>>, total |-> 0]

\* lines 139-143 and 146-153: one pass over a source's results
RECURSIVE CollectUrls(_, _, _, _)
CollectUrls(records, source, acc, filterDomains) ==
    IF records = <<>> THEN acc
    ELSE LET r == Head(records)
             seen == {acc[k].url : k \in 1..Len(acc)}
             take == /\ r.url \notin seen
                     /\ (filterDomains => ~IsSkippedDomain(r.url))
         IN  CollectUrls(Tail(records), source,
                         IF take
                         THEN Append(acc, [url |-> r.url, source |-> source,
                                           title |-> Get(r, "title", "")])
                         ELSE acc,
                         filterDomains)

\* lines 135-156: the URLs handed to Jina
UrlsToFetch(exaResults, googleResults, max_results_per_source) ==
    LET all == CollectUrls(googleResults, "google",
                           CollectUrls(exaResults, "exa", <<>>, FALSE), TRUE)
        cap == max_results_per_source * 2
    IN  SubSeq(all, 1, IF Len(all) < cap THEN Len(all) ELSE cap)

\* a variant of FetchContent in which the first failed read ends the loop
RECURSIVE FetchContentStopsAtFailure(_, _)
FetchContentStopsAtFailure(items, jina) ==
    IF items = <<>> THEN <<>>
    ELSE LET item == Head(items)
             got == jina[item.url]
         IN  IF got.kind = "return" /\ got.value.success
             THEN <<[url |-> item.url, source |-> item.source,
                     title |-> IF Get(got.value, "title", "") # ""
                               THEN got.value.title ELSE Get(item, "title", ""),
                     word_count |-> Get(got.value, "word_count", 0)]>>
                  \o FetchContentStopsAtFailure(Tail(items), jina)
             ELSE <<>>

\* lines 160-178: the loop over urls_to_fetch
RECURSIVE FetchContent(_, _)
FetchContent(items, jina) ==
    IF items = <<>> THEN <<>>
    ELSE LET item == Head(items)
             got == jina[item.url]
             rest == FetchContent(Tail(items), jina)
         IN  IF got.kind = "return" /\ got.value.success
             THEN <<[url |-> item.url, source |-> item.source,
                     title |-> IF Get(got.value, "title", "") # ""
                               THEN got.value.title ELSE Get(item, "title", ""),
                     word_count |-> Get(got.value, "word_count", 0)]>> \o rest
             ELSE rest

\* FounderScraper.scrape_all (the scraped_at timestamp is left out)
scrape_all(scraper, founder_name, company_name, max_results_per_source, oracle) ==
    LET exa == SourceEntry(TRUE, oracle.exa, "results")
        youtube == SourceEntry(scraper.youtube, oracle.youtube, "all_videos")
        google == SourceEntry(scraper.google, oracle.google, "all_results")
    IN  Returned([founder_name |-> founder_name,
                  company_name |-> company_name,
                  exa |-> exa,
                  youtube |-> youtube,
                  google |-> google,
                  content_fetched |->
                      FetchContent(UrlsToFetch(exa.results, google.results,
                                               max_results_per_source),
                                   oracle.jina)])

ScrapeInit ==
    /\ sScraper \in [youtube : BOOLEAN, google : BOOLEAN]
    /\ sArgs \in [founder_name : {<<"A", " ", "b">>}, company_name : {<<"C">>},
                  max_results_per_source : {1, 2}]
    /\ \E e \in ExaOutcomes,
          y \in (IF sScraper.youtube THEN YouTubeOutcomes ELSE {Raise}),
          g \in (IF sScraper.google THEN GoogleOutcomes ELSE {Raise}) :
          \E asked \in {Elems(UrlsOf(
                     UrlsToFetch(SourceEntry(TRUE, e, "results").results,
                                 SourceEntry(sScraper.google, g, "all_results").results,
                                 sArgs.max_results_per_source)))} :
              \E j \in JinaFor(asked) :
                  sOracle = [exa |-> e, youtube |-> y, google |-> g, jina |-> j]
    /\ sOutcome = NoOutcome
    /\ sPc = "call"

ScrapeAll ==
    /\ sPc = "call"
    /\ sOutcome' = scrape_all(sScraper, sArgs.founder_name, sArgs.company_name,
                              sArgs.max_results_per_source, sOracle)
    /\ sPc' = "returned"
    /\ UNCHANGED <<sScraper, sArgs, sOracle>>
    /\ UNCHANGED <<fvars, evars, bvars, rvars, nvars, wvars, jvars, ovars>>

ScrapeIdle ==
    /\ sScraper = [youtube |-> FALSE, google |-> FALSE]
    /\ sArgs = [founder_name |-> <<>>, company_name |-> <<>>, max_results_per_source |-> 1]
    /\ sOracle = [kind |-> "none"]
    /\ sOutcome = NoOutcome
    /\ sPc = "idle"

----------------------------------------------------------------------------
(* FounderScraper.__init__, generate_markdown, scrape_and_save *)

\* founder_scraper.py lines 38-54.  ExaClient() is built outside any
\* try/except; the YouTube and Google clients are built inside one.
ScraperConstruct(env) ==
    IF ClientRaises("exa", env)
    THEN [raised |-> TRUE, scraper |-> [youtube |-> FALSE, google |-> FALSE]]
    ELSE [raised |-> FALSE,
          scraper |-> [youtube |-> ~ClientRaises("youtube", env),
                       google |-> ~ClientRaises("google", env)]]

\* a variant of generate_markdown that refuses a result without any hit
MarkdownRejectsEmpty(results) ==
    IF results.exa.total = 0 /\ results.youtube.total = 0 /\ results.google.total = 0
    THEN Raise
    ELSE Returned([text |-> "markdown", founder |-> results.founder_name,
                   summary |-> <<results.exa.total, results.youtube.total,
                                 results.google.total>>])

\* lines 186-269: the report; what is kept of it is the title and the
\* summary table (lines 192-205).  No statement of it can raise on the dict
\* scrape_all builds.
generate_markdown(results) ==
    Returned([text |-> "markdown", founder |-> results.founder_name,
              summary |-> <<results.exa.total, results.youtube.total,
                            results.google.total>>])

\* Path(...).parent
Parent(path) == SubSeq(path, 1, Len(path) - 1)

\* __file__ of the two scripts, as path components below the repository
ScraperFile == <<"repo", "scripts", "scrapers", "apis", "founder_scraper.py">>
BatchFile == <<"repo", "scripts", "batch_scrape.py">>

\* a variant of ScraperOutputDir that stops one directory short
OutputDirBesideScripts(file) == Parent(Parent(Parent(file))) \o <<"data", "output">>

\* line 295: Path(__file__).parent.parent.parent.parent / "data" / "output"
ScraperOutputDir(file) == Parent(Parent(Parent(Parent(file)))) \o <<"data", "output">>

\* batch_scrape.py line 79: Path(__file__).parent.parent / "data" / "output"
BatchOutputDir(file) == Parent(Parent(file)) \o <<"data", "output">>

\* str.isalnum() on the characters that occur in the names used here
IsAlnum(c) == c \in {"a", "b", "c", "x", "y", "A", "B", "C", "X", "Y", "0", "1", "2"}

KeepChar(c) == IsAlnum(c) \/ c = "-"

\* lines 299-300 (and batch_scrape.py lines 77-78, the same two statements)
SafeName(name) ==
    LET lowered == Lower(name)
        replaced == [k \in 1..Len(lowered) |-> IF lowered[k] = " " THEN "-" ELSE lowered[k]]
    IN  SelectSeq(replaced, KeepChar)

MarkdownPath(dir, safe_name) == [dir |-> dir, stem |-> safe_name, suffix |-> ".md"]

\* line 309
JsonPath(dir, safe_name) ==
    [dir |-> Parent(dir) \o <<"cache">>,
     stem |-> safe_name \o <<"_", "r", "a", "w">>,
     suffix |-> ".json"]

\* what the file system does to the writes of one scrape_and_save call
IoOutcomes == {"ok", "mkdir_fails", "md_truncated", "json_fails"}

\* lines 271-314.  fs maps the paths of the files that exist to their
\* content; the result is the file system afterwards and whether the call
\* raised.
scrape_and_save(scraper, fs, founder_name, company_name, max_results, oracle, io) ==
    LET results == scrape_all(scraper, founder_name, company_name, max_results, oracle).value
        markdown == generate_markdown(results)
        output_dir == ScraperOutputDir(ScraperFile)
        safe_name == SafeName(founder_name)
        output_path == MarkdownPath(output_dir, safe_name)
        json_path == JsonPath(output_dir, safe_name)
    IN  IF markdown.kind = "raise" THEN [fs |-> fs, raised |-> TRUE]
        ELSE IF io = "mkdir_fails" THEN [fs |-> fs, raised |-> TRUE]
        ELSE IF io = "md_truncated"
        THEN [fs |-> Put(fs, output_path, [text |-> "partial", founder |-> founder_name,
                                           summary |-> <<>>]),
              raised |-> TRUE]
        ELSE IF io = "json_fails"
        THEN [fs |-> Put(fs, output_path, markdown.value), raised |-> TRUE]
        ELSE [fs |-> Put(Put(fs, output_path, markdown.value), json_path,
                         [text |-> "json", founder |-> founder_name, summary |-> <<>>]),
              raised |-> FALSE]

----------------------------------------------------------------------------
(* batch_scrape *)

MaxFounders == 2

\* str.strip()
RECURSIVE LStrip(_)
LStrip(text) == IF text # <<>> /\ Head(text) = " " THEN LStrip(Tail(text)) ELSE text

RECURSIVE RStrip(_)
RStrip(text) ==
    IF text # <<>> /\ text[Len(text)] = " "
    THEN RStrip(SubSeq(text, 1, Len(text) - 1))
    ELSE text

Strip(text) == RStrip(LStrip(text))

\* the rows csv.DictReader may yield: two spellings that share the slug
\* "a-b" (the second without a lastName column), a third founder and a row
\* without a name
Rows ==
    {[firstName |-> <<"A">>, lastName |-> <<"b", " ">>, companyName |-> <<"C">>],
     [firstName |-> <<"a", "-", "b", "!">>, companyName |-> <<>>],
     [firstName |-> <<" ", "c">>, lastName |-> <<"1">>, companyName |-> <<" ">>],
     [firstName |-> <<" ">>, lastName |-> <<>>, companyName |-> <<"C">>]}

RECURSIVE RowLists(_)
RowLists(n) ==
    IF n = 0 THEN {<<>>}
    ELSE {<<>>} \cup {<<r>> \o rest : r \in Rows, rest \in RowLists(n - 1)}

\* lines 65-69
FullName(row) ==
    LET first_name == Strip(Get(row, "firstName", <<>>))
        last_name == Strip(Get(row, "lastName", <<>>))
    IN  Strip(first_name \o <<" ">> \o last_name)

\* line 67 and line 93: `company if company else None` (None is the empty
\* text here)
Company(row) == Strip(Get(row, "companyName", <<>>))

\* lines 77-79
BatchOutputPath(full_name) == MarkdownPath(BatchOutputDir(BatchFile), SafeName(full_name))

\* the outbound behaviours one scrape of the batch may meet
ZeroOracle ==
    [exa |-> [kind |-> "return", value |-> [results |-> <<>>, total_found |-> 0]],
     youtube |-> [kind |-> "return", value |-> [all_videos |-> <<>>, total_found |-> 0]],
     google |-> [kind |-> "return", value |-> [all_results |-> <<>>, total_found |-> 0]],
     jina |-> [u \in Urls |-> Raise]]

RaiseOracle ==
    [exa |-> Raise, youtube |-> Raise, google |-> Raise, jina |-> [u \in Urls |-> Raise]]

HitOracle ==
    [exa |-> [kind |-> "return",
              value |-> [results |-> <<ExaRecord("a.io/1")>>, total_found |-> 1]],
     youtube |-> [kind |-> "return",
                  value |-> [all_videos |-> <<VideoRecord("youtube.com/v")>>,
                             total_found |-> 1]],
     google |-> [kind |-> "return",
                 value |-> [all_results |-> <<GoogleRecord("a.io/1")>>, total_found |-> 1]],
     jina |-> [u \in Urls |->
                  [kind |-> "return",
                   value |-> [success |-> TRUE, title |-> "page title", word_count |-> 7]]]]

\* Exa fails, YouTube finds nothing, Google finds two pages of which Jina
\* reads none
MixedOracle ==
    [exa |-> Raise,
     youtube |-> [kind |-> "return", value |-> [all_videos |-> <<>>, total_found |-> 0]],
     google |-> [kind |-> "return",
                 value |-> [all_results |-> <<GoogleRecord("b.io/2"),
                                              GoogleRecord("youtube.com/v")>>,
                            total_found |-> 2]],
     jina |-> [u \in Urls |-> [kind |-> "return",
                               value |-> [success |-> FALSE, error |-> "HTTP 500"]]]]

BatchOracles == {ZeroOracle, RaiseOracle, HitOracle, MixedOracle}

\* every source the scraper queries answered, and answered with no result
AllZero(scraper, oracle) ==
    /\ oracle.exa.kind = "return" /\ oracle.exa.value.total_found = 0
    /\ scraper.youtube =>
          oracle.youtube.kind = "return" /\ oracle.youtube.value.total_found = 0
    /\ scraper.google =>
          oracle.google.kind = "return" /\ oracle.google.value.total_found = 0

\* a variant of TryScrape that counts no failure
TryScrapeDropsFailure(stats, raised) ==
    [stats |-> IF raised THEN stats ELSE [stats EXCEPT !.success = @ + 1],
     escaped |-> FALSE]

\* a variant of TryScrape without the try/except of lines 90-101
ScrapeUnguarded(stats, raised) ==
    [stats |-> IF raised THEN stats ELSE [stats EXCEPT !.success = @ + 1],
     escaped |-> raised]

\* lines 90-101: the counters after the call, and whether an exception
\* leaves the loop
TryScrape(stats, raised) ==
    [stats |-> IF raised
               THEN [stats EXCEPT !.failed = @ + 1]
               ELSE [stats EXCEPT !.success = @ + 1],
     escaped |-> FALSE]

NoStats == [success |-> 0, failed |-> 0, skipped |-> 0]

NoScrape ==
    [scraped |-> FALSE, index |-> 0, zero |-> FALSE, io |-> "none",
     oracle |-> <<>>, results |-> <<>>]

Unvisited(founders) == [i \in 1..Len(founders) |-> "none"]

BatchEnvs ==
    {{}, {"EXA_API_KEY"},
     {"EXA_API_KEY", "YOUTUBE_API_KEY", "GOOGLE_API_KEY", "GOOGLE_SEARCH_ENGINE_ID"}}

BatchInit ==
    /\ bEnv \in BatchEnvs
    /\ bFounders \in RowLists(MaxFounders)
    /\ bStartFrom \in {0, 1}
    /\ bMaxResults \in {1}
    /\ bFs = Empty
    /\ bFsBefore = Empty
    /\ bRun = 1
    /\ bScraper = [youtube |-> FALSE, google |-> FALSE]
    /\ bI = 0
    /\ bStats = NoStats
    /\ bDisp = [run \in {1, 2} |-> Unvisited(bFounders)]
    /\ bLast = NoScrape
    /\ bPc = "new"

\* lines 40-56: read the CSV, build the scraper, zero the counters
BatchStart ==
    /\ bPc = "new"
    /\ LET built == ScraperConstruct(bEnv)
       IN  /\ bPc' = IF built.raised THEN "ctor_raised" ELSE "loop"
           /\ bScraper' = built.scraper
    /\ bI' = 0
    /\ bStats' = NoStats
    /\ bLast' = NoScrape
    /\ UNCHANGED <<bEnv, bFounders, bStartFrom, bMaxResults, bFs, bFsBefore, bRun, bDisp>>
    /\ UNCHANGED <<fvars, evars, svars, rvars, nvars, wvars, jvars, ovars>>

\* the loop body runs for bFounders[bI + 1] (enumerate counts from 0)
InLoop == bPc = "loop" /\ bI < Len(bFounders)

Visit(disposition) == bDisp' = [bDisp EXCEPT ![bRun][bI + 1] = disposition]

\* lines 61-62
IterBeforeStart ==
    /\ InLoop
    /\ bI < bStartFrom
    /\ Visit("before_start")
    /\ bI' = bI + 1
    /\ UNCHANGED <<bEnv, bFounders, bStartFrom, bMaxResults, bFs, bFsBefore, bRun,
                   bScraper, bStats, bLast, bPc>>
    /\ UNCHANGED <<fvars, evars, svars, rvars, nvars, wvars, jvars, ovars>>

\* lines 65-74
IterNoName ==
    /\ InLoop
    /\ ~(bI < bStartFrom)
    /\ FullName(bFounders[bI + 1]) = <<>>
    /\ Visit("no_name")
    /\ bStats' = [bStats EXCEPT !.skipped = @ + 1]
    /\ bI' = bI + 1
    /\ UNCHANGED <<bEnv, bFounders, bStartFrom, bMaxResults, bFs, bFsBefore, bRun,
                   bScraper, bLast, bPc>>
    /\ UNCHANGED <<fvars, evars, svars, rvars, nvars, wvars, jvars, ovars>>

\* lines 76-84
IterExists ==
    /\ InLoop
    /\ ~(bI < bStartFrom)
    /\ FullName(bFounders[bI + 1]) # <<>>
    /\ Has(bFs, BatchOutputPath(FullName(bFounders[bI + 1])))
    /\ Visit("exists")
    /\ bStats' = [bStats EXCEPT !.skipped = @ + 1]
    /\ bI' = bI + 1
    /\ UNCHANGED <<bEnv, bFounders, bStartFrom, bMaxResults, bFs, bFsBefore, bRun,
                   bScraper, bLast, bPc>>
    /\ UNCHANGED <<fvars, evars, svars, rvars, nvars, wvars, jvars, ovars>>

\* lines 86-119 (the notification of lines 103-116 and the sleep change
\* nothing that is kept here)
IterScrape ==
    /\ InLoop
    /\ ~(bI < bStartFrom)
    /\ FullName(bFounders[bI + 1]) # <<>>
    /\ ~Has(bFs, BatchOutputPath(FullName(bFounders[bI + 1])))
    /\ \E oracle \in BatchOracles, io \in IoOutcomes :
          LET row == bFounders[bI + 1]
              saved == scrape_and_save(bScraper, bFs, FullName(row), Company(row),
                                       bMaxResults, oracle, io)
              tried == TryScrape(bStats, saved.raised)
          IN  /\ bFs' = saved.fs
              /\ bStats' = tried.stats
              /\ bLast' = [scraped |-> TRUE, index |-> bI + 1,
                           zero |-> AllZero(bScraper, oracle), io |-> io,
                           oracle |-> oracle,
                           results |-> scrape_all(bScraper, FullName(row), Company(row),
                                                  bMaxResults, oracle).value]
              /\ IF tried.escaped
                 THEN /\ bPc' = "aborted"
                      /\ UNCHANGED <<bI, bDisp>>
                 ELSE /\ Visit(IF saved.raised THEN "failed" ELSE "success")
                      /\ bI' = bI + 1
                      /\ bPc' = bPc
    /\ UNCHANGED <<bEnv, bFounders, bStartFrom, bMaxResults, bFsBefore, bRun, bScraper>>
    /\ UNCHANGED <<fvars, evars, svars, rvars, nvars, wvars, jvars, ovars>>

\* lines 121-139
BatchFinish ==
    /\ bPc = "loop"
    /\ bI = Len(bFounders)
    /\ bPc' = "finished"
    /\ UNCHANGED <<bEnv, bFounders, bStartFrom, bMaxResults, bFs, bFsBefore, bRun,
                   bScraper, bI, bStats, bDisp, bLast>>
    /\ UNCHANGED <<fvars, evars, svars, rvars, nvars, wvars, jvars, ovars>>

\* the same command is run a second time over the same CSV and the same
\* data directory
BatchRerun ==
    /\ bPc = "finished"
    /\ bRun = 1
    /\ bRun' = 2
    /\ bFsBefore' = bFs
    /\ bLast' = NoScrape
    /\ bPc' = "new"
    /\ UNCHANGED <<bEnv, bFounders, bStartFrom, bMaxResults, bFs, bScraper, bI, bStats,
                   bDisp>>
    /\ UNCHANGED <<fvars, evars, svars, rvars, nvars, wvars, jvars, ovars>>

BatchIdle ==
    /\ bEnv = {}
    /\ bFounders = <<>>
    /\ bStartFrom = 0
    /\ bMaxResults = 1
    /\ bFs = Empty
    /\ bFsBefore = Empty
    /\ bRun = 1
    /\ bScraper = [youtube |-> FALSE, google |-> FALSE]
    /\ bI = 0
    /\ bStats = NoStats
    /\ bDisp = <<>>
    /\ bLast = NoScrape
    /\ bPc = "idle"

BatchNext ==
    \/ BatchStart
    \/ IterBeforeStart
    \/ IterNoName
    \/ IterExists
    \/ IterScrape
    \/ BatchFinish
    \/ BatchRerun

----------------------------------------------------------------------------
(* The call sites of the relevance filter: YouTubeClient.search_person_content
   (the same block is in GoogleSearchClient.search_media_appearances) and
   MarkdownTransformer.check_relevance_batch *)

\* One item of the "decisions" array; "index" or "action" may be missing.
DecisionItems ==
    {[action |-> "keep"]}
    \cup {[index |-> i] : i \in Indices}
    \cup {[index |-> i, action |-> a] : i \in Indices, a \in {"keep", "discard"}}

DecisionLists == UNION {[1..n -> DecisionItems] : n \in 0..MaxEvals}

\* the JSON documents the binary check may get: not JSON, an object without
\* the key "decisions", or an object with a "decisions" array
DecisionDocs ==
    {[json |-> "invalid", decisions |-> <<>>],
     [json |-> "no_decisions", decisions |-> <<>>]}
    \cup {[json |-> "object", decisions |-> d] : d \in DecisionLists}

DecisionResponses ==
    {[kind |-> "api_error", content |-> <<>>]}
    \cup {[kind |-> "message", content |-> PlainText(d)] : d \in DecisionDocs}
    \cup {[kind |-> "message", content |-> FencedText(d)] :
             d \in {x \in DecisionDocs : x.json # "object" \/ Len(x.decisions) <= 1}}
    \cup {[kind |-> "message", content |-> TaggedFencedText(d)] :
             d \in {x \in DecisionDocs : x.json # "object" \/ Len(x.decisions) <= 1}}

\* to_markdown.py line 90: json.loads(content)["decisions"]
LoadDecisions(content) ==
    IF Len(content) = 1 /\ content[1].tok = "json_doc" /\ content[1].doc.json = "object"
    THEN [ok |-> TRUE, decisions |-> content[1].doc.decisions]
    ELSE [ok |-> FALSE, decisions |-> <<>>]

\* to_markdown.py lines 95-98 for one decision: does the loop body raise
DecisionRaises(results, d) ==
    \/ ~Has(d, "index")
    \/ /\ Has(d, "index")
       /\ d.index < Len(results)
       /\ \/ ~Has(d, "action")
          \/ Has(d, "action") /\ d.action = "keep" /\ ~PyIndexOk(results, d.index)

\* to_markdown.py lines 93-100: the loop over the decisions (none raises)
RECURSIVE KeepDecided(_, _)
KeepDecided(results, decisions) ==
    IF decisions = <<>> THEN <<>>
    ELSE LET d == Head(decisions)
             rest == KeepDecided(results, Tail(decisions))
         IN  IF d.index < Len(results) /\ d.action = "keep"
             THEN <<PyIndex(results, d.index)>> \o rest
             ELSE rest

\* a variant of SkipsCheck that looks at the client only
SkipsCheckClientOnly(client, results) == ~client

\* to_markdown.py line 48: if not self.client or not results
SkipsCheck(client, results) == ~client \/ results = <<>>

\* MarkdownTransformer.check_relevance_batch (to_markdown.py lines 38-109):
\* what it returns and how many chat completions it asked for
check_relevance_batch(client, results, response) ==
    IF SkipsCheck(client, results) THEN [outcome |-> Returned(results), calls |-> 0]
    ELSE IF response.kind = "api_error" THEN [outcome |-> Returned(results), calls |-> 1]
    ELSE LET loaded == LoadDecisions(StripFence(response.content))
         IN  IF ~loaded.ok THEN [outcome |-> Returned(results), calls |-> 1]
             ELSE IF \E k \in 1..Len(loaded.decisions) :
                         DecisionRaises(results, loaded.decisions[k])
             THEN [outcome |-> Returned(results), calls |-> 1]
             ELSE [outcome |-> Returned(KeepDecided(results, loaded.decisions)),
                   calls |-> 1]

\* relevance_filter.py lines 37-42: RelevanceFilter() raises ValueError
\* without OPENAI_API_KEY; the import of youtube.py line 120 names a module
\* that may not be there
FilterAvailable(key, importable) == importable /\ key

\* youtube.py lines 116-137 (google_search.py lines 182-202): the filtered
\* list and the number of chat completions asked for
SearchFilter(key, importable, use_llm_filter, all_videos, response, min_relevance_score) ==
    IF use_llm_filter /\ all_videos # <<>>
    THEN IF ~FilterAvailable(key, importable)
         THEN [outcome |-> Returned(all_videos), calls |-> 0]
         ELSE LET filtered == filter_results(all_videos, response, min_relevance_score)
              IN  [outcome |-> IF filtered.kind = "raise"
                               THEN Returned(all_videos) ELSE filtered,
                   calls |-> 1]
    ELSE [outcome |-> Returned(all_videos), calls |-> 0]

NoResponse == [kind |-> "api_error", content |-> <<>>]

\* a response is drawn only where a chat completion can be asked for
RelevanceInit ==
    /\ rSite \in {"search_person_content", "check_relevance_batch"}
    /\ rKey \in BOOLEAN
    /\ rResults \in ResultLists
    /\ IF rSite = "search_person_content"
       THEN /\ rUseLlm \in BOOLEAN
            /\ rImportable \in BOOLEAN
            /\ rMinScore \in MinScores
            /\ rResponse \in (IF rUseLlm /\ FilterAvailable(rKey, rImportable)
                              THEN Responses ELSE {NoResponse})
       ELSE /\ rUseLlm = TRUE
            /\ rImportable = TRUE
            /\ rMinScore = 0
            /\ rResponse \in (IF rKey THEN DecisionResponses ELSE {NoResponse})
    /\ rOutcome = NoOutcome
    /\ rCalls = 0
    /\ rPc = "call"

SearchPersonContent ==
    /\ rPc = "call"
    /\ rSite = "search_person_content"
    /\ LET done == SearchFilter(rKey, rImportable, rUseLlm, rResults, rResponse, rMinScore)
       IN  /\ rOutcome' = done.outcome
           /\ rCalls' = rCalls + done.calls
    /\ rPc' = "returned"
    /\ UNCHANGED <<rSite, rKey, rUseLlm, rImportable, rResults, rResponse, rMinScore>>
    /\ UNCHANGED <<fvars, evars, svars, bvars, nvars, wvars, jvars, ovars>>

CheckRelevanceBatch ==
    /\ rPc = "call"
    /\ rSite = "check_relevance_batch"
    /\ LET done == check_relevance_batch(rKey, rResults, rResponse)
       IN  /\ rOutcome' = done.outcome
           /\ rCalls' = rCalls + done.calls
    /\ rPc' = "returned"
    /\ UNCHANGED <<rSite, rKey, rUseLlm, rImportable, rResults, rResponse, rMinScore>>
    /\ UNCHANGED <<fvars, evars, svars, bvars, nvars, wvars, jvars, ovars>>

RelevanceIdle ==
    /\ rSite = "none"
    /\ rKey = FALSE
    /\ rUseLlm = FALSE
    /\ rImportable = FALSE
    /\ rResults = <<>>
    /\ rResponse = NoResponse
    /\ rMinScore = 0
    /\ rOutcome = NoOutcome
    /\ rCalls = 0
    /\ rPc = "idle"

RelevanceNext ==
    \/ SearchPersonContent
    \/ CheckRelevanceBatch

----------------------------------------------------------------------------
(* The normalizers of the search adapters: the loop bodies of
   ExaClient.search_founder_content, GoogleSearchClient.search and
   ListenNotesClient.search_episodes *)

\* JSON values of a provider's record: null, a text (its characters) or an
\* object
None == [type |-> "NoneType", text |-> <<>>, items |-> <<>>]
Str(chars) == [type |-> "str", text |-> chars, items |-> <<>>]
Dict(items) == [type |-> "dict", text |-> <<>>, items |-> items]

\* item.get(key): the value, null included, or None when the key is absent
GetValue(item, key) == IF Has(item, key) THEN item[key] ELSE None

\* item.get(key, default)
GetOr(item, key, default) == IF Has(item, key) THEN item[key] ELSE default

\* the raw records with any subset of the keys, each key null or set
RawItems(keys, value) == UNION {[K -> {None, value}] : K \in SUBSET keys}

ExaItems ==
    RawItems({"title", "url", "publishedDate", "author", "score"},
             Str(UrlChars("youtube.com/v")))

GoogleItems ==
    RawItems({"title", "link", "snippet", "displayLink"},
             Str(<<"w", "w", "w", ".", "a", ".", "i", "o", "/", "1">>))

\* the "podcast" object of an episode: null, empty, or with a title
PodcastValues == {None, Dict(<<>>), Dict([title_original |-> Str(<<"p">>)])}

EpisodeItems ==
    {[k \in DOMAIN text \cup DOMAIN podcast |->
         IF k = "podcast" THEN podcast[k] ELSE text[k]] :
        text \in RawItems({"id", "title_original", "description_original"},
                          Str(<<"a", "b", "c">>)),
        podcast \in UNION {[K -> PodcastValues] : K \in SUBSET {"podcast"}}}

\* exa.py lines 98-115: item.get("url", "").lower() raises on a null url
normalize_exa(item) ==
    IF GetOr(item, "url", Str(<<>>)).type # "str" THEN Raise
    ELSE Returned([title |-> GetValue(item, "title"),
                   url |-> GetValue(item, "url"),
                   published_date |-> GetValue(item, "publishedDate"),
                   author |-> GetValue(item, "author"),
                   score |-> GetValue(item, "score"),
                   category |-> CategoryOfText(GetOr(item, "url", Str(<<>>)).text)])

\* str.replace("www.", ""): every occurrence is removed
RECURSIVE RemoveWww(_)
RemoveWww(text) ==
    IF text = <<>> THEN <<>>
    ELSE IF Len(text) >= 4 /\ SubSeq(text, 1, 4) = <<"w", "w", "w", ".">>
         THEN RemoveWww(SubSeq(text, 5, Len(text)))
         ELSE <<Head(text)>> \o RemoveWww(Tail(text))

\* str.split("/")[0]: the text before the first slash
RECURSIVE BeforeSlash(_)
BeforeSlash(text) ==
    IF text = <<>> \/ Head(text) = "/" THEN <<>>
    ELSE <<Head(text)>> \o BeforeSlash(Tail(text))

\* google_search.py lines 66-74: item.get("displayLink", "").replace(...)
\* raises on a null displayLink
normalize_google(item) ==
    IF GetOr(item, "displayLink", Str(<<>>)).type # "str" THEN Raise
    ELSE Returned([title |-> GetValue(item, "title"),
                   url |-> GetValue(item, "link"),
                   snippet |-> GetValue(item, "snippet"),
                   display_url |-> GetValue(item, "displayLink"),
                   source |-> Str(BeforeSlash(RemoveWww(
                                 GetOr(item, "displayLink", Str(<<>>)).text)))])

\* podcasts.py line 70: the description is cut at 500 characters
DescriptionLimit == 500

\* podcasts.py lines 66-80: the slice raises on a null description, the
\* second .get on a null "podcast"
normalize_episode(item) ==
    IF GetOr(item, "description_original", Str(<<>>)).type # "str" THEN Raise
    ELSE IF GetOr(item, "podcast", Dict(<<>>)).type # "dict" THEN Raise
    ELSE Returned([episode_id |-> GetValue(item, "id"),
                   title |-> GetValue(item, "title_original"),
                   description |->
                       Str(Prefix(GetOr(item, "description_original", Str(<<>>)).text,
                                  DescriptionLimit)),
                   podcast_name |->
                       GetValue(GetOr(item, "podcast", Dict(<<>>)).items, "title_original")])

NormalizeInit ==
    /\ \/ nProvider = "exa" /\ nItem \in ExaItems
       \/ nProvider = "google" /\ nItem \in GoogleItems
       \/ nProvider = "podcasts" /\ nItem \in EpisodeItems
    /\ nOutcome = NoOutcome
    /\ nPc = "call"

Normalize ==
    /\ nPc = "call"
    /\ nOutcome' = IF nProvider = "exa" THEN normalize_exa(nItem)
                   ELSE IF nProvider = "google" THEN normalize_google(nItem)
                   ELSE normalize_episode(nItem)
    /\ nPc' = "returned"
    /\ UNCHANGED <<nProvider, nItem>>
    /\ UNCHANGED <<fvars, evars, svars, bvars, rvars, wvars, jvars, ovars>>

NormalizeIdle ==
    /\ nProvider = "none"
    /\ nItem = <<>>
    /\ nOutcome = NoOutcome
    /\ nPc = "idle"

----------------------------------------------------------------------------
(* PhantombusterClient.wait_for_completion: the polling loop *)

\* the clock counts ticks; a call to the API takes at least one tick and at
\* most MaxCall (the client's timeout), after which it has returned or raised
MaxTimeout == 3
MaxPoll == 2
MaxCall == 2
MaxLaunches == 2

\* the furthest the clock can get: the loop is entered before the timeout,
\* then one get_phantom, one get_output or one sleep
MaxClock == MaxTimeout + MaxPoll + MaxCall + MaxCall

\* lastEndType of the agent: None while it has never ended
EndTypes == {"None", "finished", "error"}

\* what get_phantom returns: the remote job may report anything at each poll
Statuses == [nbLaunches : 0..MaxLaunches, lastEndType : EndTypes]

\* initial_launches = None
NoLaunches == [known |-> FALSE, count |-> 0]

RaisedWith(error) == [kind |-> "raise", value |-> error]

\* a loop that polls without looking at the clock
LoopForever(now, start, timeout) == TRUE

\* line 75: while time.time() - start < timeout
LoopContinues(now, start, timeout) == now - start < timeout

\* lines 80-81: the first poll records the launch count
InitialLaunches(initial, status) ==
    IF initial.known THEN initial ELSE [known |-> TRUE, count |-> status.nbLaunches]

\* lines 84-88: what one poll makes of the status
Verdict(initial, status) ==
    IF status.nbLaunches > initial.count /\ status.lastEndType = "finished"
    THEN "finished"
    ELSE IF status.nbLaunches > initial.count /\ status.lastEndType = "error"
    THEN "error"
    ELSE "waiting"

WaitInit ==
    /\ wArgs \in [timeout : 0..MaxTimeout, poll_interval : 0..MaxPoll]
    /\ wStart = 0
    /\ wNow = 0
    /\ wInitial = NoLaunches
    /\ wOutcome = NoOutcome
    /\ wPc = "while"

\* line 75, and line 95 when the loop is left
WaitCheck ==
    /\ wPc = "while"
    /\ IF LoopContinues(wNow, wStart, wArgs.timeout)
       THEN wPc' = "poll" /\ wOutcome' = wOutcome
       ELSE wPc' = "done" /\ wOutcome' = RaisedWith("TimeoutError")
    /\ UNCHANGED <<wArgs, wStart, wNow, wInitial>>
    /\ UNCHANGED <<fvars, evars, svars, bvars, rvars, nvars, jvars, ovars>>

\* lines 76-88: get_phantom answers and the status is examined
WaitPoll ==
    /\ wPc = "poll"
    /\ \E d \in 1..MaxCall, status \in Statuses :
          /\ wNow + d <= MaxClock
          /\ wNow' = wNow + d
          /\ wInitial' = InitialLaunches(wInitial, status)
          /\ LET verdict == Verdict(InitialLaunches(wInitial, status), status)
             IN  IF verdict = "finished"
                 THEN wPc' = "get_output" /\ wOutcome' = wOutcome
                 ELSE IF verdict = "error"
                 THEN wPc' = "done" /\ wOutcome' = RaisedWith("PhantomFailed")
                 ELSE wPc' = "sleep" /\ wOutcome' = wOutcome
    /\ UNCHANGED <<wArgs, wStart>>
    /\ UNCHANGED <<fvars, evars, svars, bvars, rvars, nvars, jvars, ovars>>

\* line 76: get_phantom raises (an HTTP error status, or the client's timeout)
WaitPollRaises ==
    /\ wPc = "poll"
    /\ \E d \in 1..MaxCall :
          /\ wNow + d <= MaxClock
          /\ wNow' = wNow + d
    /\ wPc' = "done"
    /\ wOutcome' = RaisedWith("HTTPError")
    /\ UNCHANGED <<wArgs, wStart, wInitial>>
    /\ UNCHANGED <<fvars, evars, svars, bvars, rvars, nvars, jvars, ovars>>

\* line 86: return self.get_output(phantom_id), which returns or raises
WaitGetOutput ==
    /\ wPc = "get_output"
    /\ \E d \in 1..MaxCall :
          /\ wNow + d <= MaxClock
          /\ wNow' = wNow + d
    /\ wOutcome' \in {Returned("output"), RaisedWith("HTTPError")}
    /\ wPc' = "done"
    /\ UNCHANGED <<wArgs, wStart, wInitial>>
    /\ UNCHANGED <<fvars, evars, svars, bvars, rvars, nvars, jvars, ovars>>

\* line 93: time.sleep(poll_interval)
WaitSleep ==
    /\ wPc = "sleep"
    /\ wNow + wArgs.poll_interval <= MaxClock
    /\ wNow' = wNow + wArgs.poll_interval
    /\ wPc' = "while"
    /\ UNCHANGED <<wArgs, wStart, wInitial, wOutcome>>
    /\ UNCHANGED <<fvars, evars, svars, bvars, rvars, nvars, jvars, ovars>>

WaitIdle ==
    /\ wArgs = [timeout |-> 0, poll_interval |-> 0]
    /\ wStart = 0
    /\ wNow = 0
    /\ wInitial = NoLaunches
    /\ wOutcome = NoOutcome
    /\ wPc = "idle"

WaitNext ==
    \/ WaitCheck
    \/ WaitPoll
    \/ WaitPollRaises
    \/ WaitGetOutput
    \/ WaitSleep

----------------------------------------------------------------------------
(* PhantombusterClient.scrape_linkedin_profile: launch_phantom, then
   wait_for_completion, against the remote agent *)

\* the agent before the launch: the runs it has counted so far and how the
\* last of them ended
JobInit ==
    /\ jLaunches \in 0..(MaxLaunches - 1)
    /\ jEnd \in (IF jLaunches = 0 THEN {"None"} ELSE {"finished", "error"})
    /\ jRun = "idle"
    /\ jSeen = FALSE

LaunchInit ==
    /\ wArgs \in [timeout : 1..MaxTimeout, poll_interval : 1..MaxPoll]
    /\ wStart = 0
    /\ wNow = 0
    /\ wInitial = NoLaunches
    /\ wOutcome = NoOutcome
    /\ wPc = "launch"
    /\ JobInit

\* lines 107-115 and line 72: the launch request is answered, the run is
\* queued, and wait_for_completion reads the clock (the origin of wNow)
LaunchPhantom ==
    /\ wPc = "launch"
    /\ wStart' = wNow
    /\ jRun' = "launched"
    /\ wPc' = "while"
    /\ UNCHANGED <<wArgs, wNow, wInitial, wOutcome, jLaunches, jEnd, jSeen>>
    /\ UNCHANGED <<fvars, evars, svars, bvars, rvars, nvars, ovars>>

\* the agent starts the run and counts it
JobStart ==
    /\ jRun = "launched"
    /\ jLaunches' = jLaunches + 1
    /\ jRun' = "running"
    /\ UNCHANGED <<jEnd, jSeen>>
    /\ UNCHANGED <<wvars>>
    /\ UNCHANGED <<fvars, evars, svars, bvars, rvars, nvars, ovars>>

\* the run ends
JobEnd ==
    /\ jRun = "running"
    /\ jEnd' \in {"finished", "error"}
    /\ jRun' = "ended"
    /\ UNCHANGED <<jLaunches, jSeen>>
    /\ UNCHANGED <<wvars>>
    /\ UNCHANGED <<fvars, evars, svars, bvars, rvars, nvars, ovars>>

\* what get_phantom reports of the agent
JobStatus == [nbLaunches |-> jLaunches, lastEndType |-> jEnd]

\* lines 76-88 with the agent's status; jSeen records that a poll was
\* answered after the launched run had ended as finished
LaunchedPoll ==
    /\ wPc = "poll"
    /\ jRun # "idle"
    /\ \E d \in 1..MaxCall :
          /\ wNow + d <= MaxClock
          /\ wNow' = wNow + d
    /\ wInitial' = InitialLaunches(wInitial, JobStatus)
    /\ LET verdict == Verdict(InitialLaunches(wInitial, JobStatus), JobStatus)
       IN  IF verdict = "finished"
           THEN wPc' = "get_output" /\ wOutcome' = wOutcome
           ELSE IF verdict = "error"
           THEN wPc' = "done" /\ wOutcome' = RaisedWith("PhantomFailed")
           ELSE wPc' = "sleep" /\ wOutcome' = wOutcome
    /\ jSeen' = (jSeen \/ (jRun = "ended" /\ jEnd = "finished"))
    /\ UNCHANGED <<wArgs, wStart, jLaunches, jEnd, jRun>>
    /\ UNCHANGED <<fvars, evars, svars, bvars, rvars, nvars, ovars>>

JobIdle ==
    /\ jLaunches = 0
    /\ jEnd = "None"
    /\ jRun = "idle"
    /\ jSeen = FALSE

LaunchNext ==
    \/ LaunchPhantom
    \/ JobStart
    \/ JobEnd
    \/ LaunchedPoll
    \/ WaitCheck
    \/ WaitPollRaises
    \/ WaitGetOutput
    \/ WaitSleep

----------------------------------------------------------------------------
(* Step 3 of YouTubeClient.search_person_content and of
   GoogleSearchClient.search_media_appearances: the category buckets *)

\* the values the "category" field of a record of the final list may have:
\* those the prompt names, one it does not, and null
CategoryValues ==
    {"interview", "own_content", "podcast", "talk", "mention", "article",
     "irrelevant", "other", "null"}

\* the records of a final list: from the filter with a category, or raw
\* without one
OrganizedRecords ==
    {[url |-> u] : u \in {"a.io/1", "youtube.com/v"}}
    \cup {[url |-> u, category |-> c] : u \in {"a.io/1", "youtube.com/v"},
                                        c \in CategoryValues}

OrganizedLists == UNION {[1..n -> OrganizedRecords] : n \in 0..MaxResults}

\* results[bucket].append(record)
AppendTo(results, bucket, record) ==
    [results EXCEPT ![bucket] = Append(@, record)]

\* youtube.py lines 140-149
NoVideos(filtered_videos) ==
    [interviews |-> <<>>, podcasts |-> <<>>, talks |-> <<>>, own_content |-> <<>>,
     mentions |-> <<>>, all_videos |-> filtered_videos,
     total_found |-> Len(filtered_videos)]

\* a variant of the loop without the final else
RECURSIVE OrganizeVideosNoDefault(_, _)
OrganizeVideosNoDefault(videos, results) ==
    IF videos = <<>> THEN results
    ELSE LET video == Head(videos)
             category == Get(video, "category", "mentions")
             rest == Tail(videos)
         IN  IF category = "interview"
             THEN OrganizeVideosNoDefault(rest, AppendTo(results, "interviews", video))
             ELSE IF category = "podcast"
             THEN OrganizeVideosNoDefault(rest, AppendTo(results, "podcasts", video))
             ELSE IF category = "talk"
             THEN OrganizeVideosNoDefault(rest, AppendTo(results, "talks", video))
             ELSE IF category = "own_content"
             THEN OrganizeVideosNoDefault(rest, AppendTo(results, "own_content", video))
             ELSE IF category = "mentions"
             THEN OrganizeVideosNoDefault(rest, AppendTo(results, "mentions", video))
             ELSE OrganizeVideosNoDefault(rest, results)

\* youtube.py lines 151-162
RECURSIVE OrganizeVideos(_, _)
OrganizeVideos(videos, results) ==
    IF videos = <<>> THEN results
    ELSE LET video == Head(videos)
             category == Get(video, "category", "mentions")
             rest == Tail(videos)
         IN  IF category = "interview"
             THEN OrganizeVideos(rest, AppendTo(results, "interviews", video))
             ELSE IF category = "podcast"
             THEN OrganizeVideos(rest, AppendTo(results, "podcasts", video))
             ELSE IF category = "talk"
             THEN OrganizeVideos(rest, AppendTo(results, "talks", video))
             ELSE IF category = "own_content"
             THEN OrganizeVideos(rest, AppendTo(results, "own_content", video))
             ELSE OrganizeVideos(rest, AppendTo(results, "mentions", video))

\* google_search.py lines 205-214
NoAppearances(filtered_results) ==
    [podcast_episodes |-> <<>>, video_appearances |-> <<>>, written_interviews |-> <<>>,
     articles |-> <<>>, talks |-> <<>>, all_results |-> filtered_results,
     total_found |-> Len(filtered_results)]

\* "youtube.com" in url or "vimeo.com" in url
IsVideoUrl(url) ==
    \/ Contains(UrlChars(url), <<"y", "o", "u", "t", "u", "b", "e", ".", "c", "o", "m">>)
    \/ Contains(UrlChars(url), <<"v", "i", "m", "e", "o", ".", "c", "o", "m">>)

\* google_search.py lines 216-236
RECURSIVE OrganizeAppearances(_, _)
OrganizeAppearances(records, results) ==
    IF records = <<>> THEN results
    ELSE LET r == Head(records)
             category == Get(r, "category", "article")
             url == Get(r, "url", "")
             rest == Tail(records)
         IN  IF category = "podcast"
             THEN OrganizeAppearances(rest, AppendTo(results, "podcast_episodes", r))
             ELSE IF category = "interview"
             THEN IF IsVideoUrl(url)
                  THEN OrganizeAppearances(rest, AppendTo(results, "video_appearances", r))
                  ELSE OrganizeAppearances(rest, AppendTo(results, "written_interviews", r))
             ELSE IF category = "talk"
             THEN OrganizeAppearances(rest, AppendTo(results, "talks", r))
             ELSE IF category \in {"article", "own_content"}
             THEN OrganizeAppearances(rest, AppendTo(results, "articles", r))
             ELSE IF IsVideoUrl(url)
             THEN OrganizeAppearances(rest, AppendTo(results, "video_appearances", r))
             ELSE OrganizeAppearances(rest, AppendTo(results, "articles", r))

OrganizeInit ==
    /\ oSite \in {"youtube", "google"}
    /\ oFiltered \in OrganizedLists
    /\ oResults = <<>>
    /\ oPc = "organize"

\* youtube.py lines 139-164
OrganizeYouTube ==
    /\ oPc = "organize"
    /\ oSite = "youtube"
    /\ oResults' = OrganizeVideos(oFiltered, NoVideos(oFiltered))
    /\ oPc' = "returned"
    /\ UNCHANGED <<oSite, oFiltered>>
    /\ UNCHANGED <<fvars, evars, svars, bvars, rvars, nvars, wvars, jvars>>

\* google_search.py lines 204-238
OrganizeGoogle ==
    /\ oPc = "organize"
    /\ oSite = "google"
    /\ oResults' = OrganizeAppearances(oFiltered, NoAppearances(oFiltered))
    /\ oPc' = "returned"
    /\ UNCHANGED <<oSite, oFiltered>>
    /\ UNCHANGED <<fvars, evars, svars, bvars, rvars, nvars, wvars, jvars>>

OrganizeIdle ==
    /\ oSite = "none"
    /\ oFiltered = <<>>
    /\ oResults = <<>>
    /\ oPc = "idle"

OrganizeNext ==
    \/ OrganizeYouTube
    \/ OrganizeGoogle

InitFilter == FilterInit /\ EnrichIdle /\ ScrapeIdle /\ BatchIdle /\ RelevanceIdle /\ NormalizeIdle /\ WaitIdle /\ JobIdle /\ OrganizeIdle

SpecFilter == InitFilter /\ [][FilterCall]_vars

InitEnrich == EnrichInit /\ FilterIdle /\ ScrapeIdle /\ BatchIdle /\ RelevanceIdle /\ NormalizeIdle /\ WaitIdle /\ JobIdle /\ OrganizeIdle

SpecEnrich == InitEnrich /\ [][EnrichNext]_vars

InitScrape == ScrapeInit /\ FilterIdle /\ EnrichIdle /\ BatchIdle /\ RelevanceIdle /\ NormalizeIdle /\ WaitIdle /\ JobIdle /\ OrganizeIdle

SpecScrape == InitScrape /\ [][ScrapeAll]_vars

InitBatch == BatchInit /\ FilterIdle /\ EnrichIdle /\ ScrapeIdle /\ RelevanceIdle /\ NormalizeIdle /\ WaitIdle /\ JobIdle /\ OrganizeIdle

SpecBatch == InitBatch /\ [][BatchNext]_vars

InitRelevance ==
    RelevanceInit /\ FilterIdle /\ EnrichIdle /\ ScrapeIdle /\ BatchIdle /\ NormalizeIdle /\ WaitIdle /\ JobIdle /\ OrganizeIdle

SpecRelevance == InitRelevance /\ [][RelevanceNext]_vars

InitNormalize ==
    /\ NormalizeInit /\ FilterIdle /\ EnrichIdle /\ ScrapeIdle /\ BatchIdle
    /\ RelevanceIdle /\ WaitIdle /\ JobIdle /\ OrganizeIdle

SpecNormalize == InitNormalize /\ [][Normalize]_vars

InitWait ==
    /\ WaitInit /\ FilterIdle /\ EnrichIdle /\ ScrapeIdle /\ BatchIdle
    /\ RelevanceIdle /\ NormalizeIdle /\ JobIdle /\ OrganizeIdle

\* the interpreter keeps running the loop: a call that is under way returns or
\* raises within the client's timeout, and a sleep ends
SpecWait == InitWait /\ [][WaitNext]_vars /\ WF_vars(WaitNext)

InitLaunch ==
    /\ LaunchInit /\ FilterIdle /\ EnrichIdle /\ ScrapeIdle /\ BatchIdle
    /\ RelevanceIdle /\ NormalizeIdle /\ OrganizeIdle

SpecLaunch == InitLaunch /\ [][LaunchNext]_vars

InitOrganize ==
    /\ OrganizeInit /\ FilterIdle /\ EnrichIdle /\ ScrapeIdle /\ BatchIdle
    /\ RelevanceIdle /\ NormalizeIdle /\ WaitIdle /\ JobIdle

SpecOrganize == InitOrganize /\ [][OrganizeNext]_vars

----------------------------------------------------------------------------
(* Properties of filter_results *)

\* the JSON document carried by the message text (whatever wraps it)
DocOf(response) ==
    LET docs == {response.content[k].doc : k \in {j \in 1..Len(response.content) :
                                                    response.content[j].tok = "json_doc"}}
    IN  CHOOSE d \in docs : TRUE

\* the message text is not JSON, or has no "evaluations", or one of its
\* verdicts has no "index" to match it back to a candidate
MalformedResponse(response) ==
    /\ response.kind = "message"
    /\ \/ DocOf(response).json # "object"
       \/ \E k \in 1..Len(DocOf(response).evaluations) :
              ~Has(DocOf(response).evaluations[k], "index")

\* the message text is a JSON object whose "evaluations" items all carry
\* index, relevance_score and category
WellFormedResponse(response) ==
    /\ response.kind = "message"
    /\ DocOf(response).json = "object"
    /\ \A k \in 1..Len(DocOf(response).evaluations) :
           LET item == DocOf(response).evaluations[k]
           IN  Has(item, "index") /\ Has(item, "relevance_score") /\ Has(item, "category")

\* the index designates an input candidate
InRange(results, idx) == 0 <= idx /\ idx < Len(results)

\* candidate number idx (0-based) carrying the verdict of item
Scored(results, item) ==
    Put(Put(Put(results[item.index + 1], "relevance_score", item.relevance_score),
            "category", item.category), "relevance_reason", "")

Descending(s) ==
    \A i \in 1..Len(s) : \A j \in 1..Len(s) :
        i < j => s[i].relevance_score >= s[j].relevance_score

\* C1: when the model's response cannot be parsed as the verdict structure,
\* filter_results returns (does not raise) the input candidates themselves,
\* in the same order, none of them carrying a relevance_score, and so never
\* an empty list for a non-empty input.
C1_FallbackSafety ==
    (fPc = "returned" /\ fResults # <<>> /\ MalformedResponse(fResponse)) =>
        /\ fOutcome.kind = "return"
        /\ fOutcome.value = fResults
        /\ fOutcome.value # <<>>
        /\ \A k \in 1..Len(fOutcome.value) : ~Has(fOutcome.value[k], "relevance_score")

C1_Witness ==
    /\ fPc = "returned"
    /\ Len(fResults) = 2
    /\ MalformedResponse(fResponse)
    /\ DocOf(fResponse).json = "invalid"
    /\ fOutcome.value = fResults

\* C6: for every min_score and every response that parses, the returned list
\* holds exactly the input candidates whose verdict scores them >= min_score
\* (each annotated with that verdict), in descending order of score.
C6_ScoreThresholdLaw ==
    (fPc = "returned" /\ fResults # <<>> /\ WellFormedResponse(fResponse)) =>
        LET evals == DocOf(fResponse).evaluations
            expected == {Scored(fResults, evals[k]) :
                            k \in {j \in 1..Len(evals) :
                                     /\ InRange(fResults, evals[j].index)
                                     /\ evals[j].relevance_score >= fMinScore}}
        IN  /\ fOutcome.kind = "return"
            /\ Elems(fOutcome.value) = expected
            /\ Descending(fOutcome.value)

\* C7: a verdict whose index designates no input candidate (below 0, or
\* >= the number of candidates) contributes no record to the output, and
\* the verdicts with in-range indices are still applied.
C7_OutOfRangeDiscarded ==
    (/\ fPc = "returned" /\ fResults # <<>> /\ WellFormedResponse(fResponse)
     /\ \E k \in 1..Len(DocOf(fResponse).evaluations) :
            ~InRange(fResults, DocOf(fResponse).evaluations[k].index)) =>
        LET evals == DocOf(fResponse).evaluations
            inRange == {j \in 1..Len(evals) : InRange(fResults, evals[j].index)}
        IN  /\ \A r \in Elems(fOutcome.value) :
                   \E j \in inRange : r = Scored(fResults, evals[j])
            /\ \A j \in inRange :
                   evals[j].relevance_score >= fMinScore =>
                       Scored(fResults, evals[j]) \in Elems(fOutcome.value)

\* C21: every returned record that carries a relevance_score has an integer
\* score between 0 and 100 inclusive, whatever the model response contains.
C21_ScoreInRange ==
    fPc = "returned" =>
        \A k \in 1..Len(fOutcome.value) :
            Has(fOutcome.value[k], "relevance_score") =>
                fOutcome.value[k].relevance_score \in 0..100

\* C27: when the response parses, every returned record is an annotated copy
\* of one input candidate, each input candidate appears at most once in the
\* output even when the response repeats an index, and the output is never
\* longer than the input.
C27_EachCandidateAtMostOnce ==
    (fPc = "returned" /\ fResults # <<>> /\ WellFormedResponse(fResponse)) =>
        /\ \A k \in 1..Len(fOutcome.value) :
               \E i \in 1..Len(fResults) :
                   \A f \in DOMAIN fResults[i] : fOutcome.value[k][f] = fResults[i][f]
        /\ \A i \in 1..Len(fResults) :
               Cardinality({k \in 1..Len(fOutcome.value) :
                               fOutcome.value[k].url = fResults[i].url}) <= 1
        /\ Len(fOutcome.value) <= Len(fResults)

\* C29: filter_results never modifies its input: after any call, whether it
\* succeeds or falls back, the input list and every input candidate have the
\* fields and values they had before; relevance_score, category and
\* relevance_reason are written only to copies.
C29_InputUnmodified ==
    fPc = "returned" =>
        /\ fInputAfter = fResults
        /\ \A k \in 1..Len(fInputAfter) : ~Has(fInputAfter[k], "relevance_score")

\* both candidates are returned annotated and the input holds no annotation
C29_Witness ==
    /\ fPc = "returned"
    /\ Len(fResults) = 2
    /\ Len(fOutcome.value) = 2
    /\ \A k \in 1..2 : Has(fOutcome.value[k], "relevance_score")
    /\ fInputAfter = fResults

\* the thresholds the returned set is compared under
Thresholds == MinScores \cup Scores

\* C20: for a fixed response, raising min_score can only shrink or preserve
\* the set filter_results returns: for all m1 <= m2 the result for m2 is a
\* subset of the result for m1.
C20_ThresholdMonotone ==
    fPc = "returned" =>
        \A returned \in {Elems(fOutcome.value)}, m \in Thresholds :
            \A other \in {Elems(filter_results(fResults, fResponse, m).value)} :
                /\ m <= fMinScore => returned \subseteq other
                /\ fMinScore <= m => other \subseteq returned

\* the higher threshold drops one of two scored candidates
C20_Witness ==
    /\ fPc = "returned"
    /\ WellFormedResponse(fResponse)
    /\ fMinScore = 70
    /\ Len(fOutcome.value) = 1
    /\ Len(filter_results(fResults, fResponse, 50).value) = 2

----------------------------------------------------------------------------
(* Properties of FounderEnrichmentPipeline *)

\* the sources the configuration and the call's arguments enable
EnabledSources ==
    {s \in Sources :
        IF ClientOf(s) = "pb" THEN UsesPhantombuster(eProfile, eClients)
        ELSE ClientOf(s) \in eClients}

\* the documented priority: profile, activity, then video, web search, podcasts
Rank(source) ==
    IF source = "linkedin_profile" THEN 1
    ELSE IF source = "linkedin_activity" THEN 2
    ELSE IF source = "youtube" THEN 3
    ELSE IF source = "google_search" THEN 4
    ELSE 5

GeneralSources == {"youtube", "google_search", "podcasts"}

\* C2: when a source's call raises, the enrichment still returns normally;
\* the result holds the empty value for that source and the returned value
\* for every source whose call returned, and sources_used lists the
\* sources that returned and not the one that raised.
C2_PerSourceIsolation ==
    /\ ePc # "raised"
    /\ \A s \in Sources :
           /\ eSettled[s].kind = "raise" =>
                  /\ eData[DataKey(s)] = Empty
                  /\ s \notin Elems(eData.sources_used)
           /\ eSettled[s].kind = "return" =>
                  /\ eData[DataKey(s)] = eSettled[s].value
                  /\ s \in Elems(eData.sources_used)

C2_Witness ==
    /\ ePc = "done"
    /\ eSettled["youtube"].kind = "raise"
    /\ \A s \in Sources \ {"youtube"} :
           eSettled[s].kind = "return" /\ eSettled[s].value.total_found = 2
    /\ eData.sources_used =
           <<"linkedin_profile", "linkedin_activity", "google_search", "podcasts">>
    /\ eData.youtube_results = Empty

\* C8: a missing credential makes its source unavailable (no query is ever
\* sent to it) while the orchestrator is still constructed and goes on with
\* the other sources; this for every source, the profile scraper included.
C8_MissingCredentialDegrades ==
    \A client \in {"pb", "youtube", "google", "podcast"} :
        (ePc # "new" /\ ClientRaises(client, eEnv)) =>
            /\ ePc # "ctor_raised"
            /\ client \notin eClients
            /\ \A k \in 1..Len(eCalls) : ClientOf(eCalls[k]) # client

\* C10: the sources are attempted in one fixed order (profile, activity,
\* video, web search, podcasts); which sources are attempted depends on the
\* configuration and the arguments only, not on earlier failures; and no
\* general-search source is queried before the profile and activity calls
\* have settled.
C10_FixedSourceOrder ==
    /\ \A i \in 1..Len(eCalls) : \A j \in 1..Len(eCalls) :
           i < j => Rank(eCalls[i]) < Rank(eCalls[j])
    /\ ePc = "done" => Elems(eCalls) = EnabledSources
    /\ (\E k \in 1..Len(eCalls) : eCalls[k] \in GeneralSources) =>
           \A s \in EnabledSources \ GeneralSources : eSettled[s].kind # "none"

C10_Witness ==
    /\ ePc = "done"
    /\ eCalls = <<"linkedin_profile", "linkedin_activity", "youtube",
                  "google_search", "podcasts">>
    /\ eSettled["linkedin_profile"].kind = "raise"
    /\ eSettled["youtube"].kind = "raise"

\* C17: after enrich_profile returns, sources_used holds a source if and
\* only if that source returned at least one result; a source that answered
\* with zero results is not in it.
C17_SourcesUsedIffResults ==
    ePc = "done" =>
        \A s \in Sources :
            s \in Elems(eData.sources_used)
                <=> (eSettled[s].kind = "return" /\ eSettled[s].value.total_found > 0)

----------------------------------------------------------------------------
(* Properties of FounderScraper.scrape_all *)

\* the records of one identity's result, in the order the sources are queried
AllRecords(result) == result.exa.results \o result.youtube.results \o result.google.results

\* the records the sources handed back, in the order the sources are queried
ReturnedRecords(scraper, oracle) ==
    SourceEntry(TRUE, oracle.exa, "results").results
    \o SourceEntry(scraper.youtube, oracle.youtube, "all_videos").results
    \o SourceEntry(scraper.google, oracle.google, "all_results").results

\* C5: within one identity's result no URL appears in more than one record,
\* across all sources; of the records two sources return for the same URL
\* exactly one survives, and it is the record of the source queried first.
C5_UrlUniqueAcrossSources ==
    sPc = "returned" =>
        LET kept == AllRecords(sOutcome.value)
            got == ReturnedRecords(sScraper, sOracle)
        IN  /\ \A i, j \in 1..Len(kept) : kept[i].url = kept[j].url => i = j
            /\ \A i \in 1..Len(got) :
                   (\A j \in 1..(i - 1) : got[j].url # got[i].url)
                       => \E k \in 1..Len(kept) : kept[k] = got[i]

\* the URLs scrape_all hands to Jina for the result it returned
Chosen ==
    UrlsToFetch(sOutcome.value.exa.results, sOutcome.value.google.results,
                sArgs.max_results_per_source)

\* C11: no URL chosen for deep-content extraction is a video-platform or
\* social-network link, whichever source returned it.
C11_NoVideoOrSocialExtraction ==
    sPc = "returned" =>
        \A k \in 1..Len(Chosen) : ~IsSkippedDomain(Chosen[k].url)

\* the distinct URLs of a list that are no video or social link, in order
RECURSIVE DistinctEligible(_, _)
DistinctEligible(urls, acc) ==
    IF urls = <<>> THEN acc
    ELSE DistinctEligible(Tail(urls),
                          IF Head(urls) \in Elems(acc) \/ IsSkippedDomain(Head(urls))
                          THEN acc ELSE Append(acc, Head(urls)))

\* the URLs of a list that Jina reads with success, in order
RECURSIVE Readable(_, _)
Readable(urls, jina) ==
    IF urls = <<>> THEN <<>>
    ELSE (IF jina[Head(urls)].kind = "return" /\ jina[Head(urls)].value.success
          THEN <<Head(urls)>> ELSE <<>>) \o Readable(Tail(urls), jina)

\* C12: the URLs chosen for extraction are the first 2*max_results_per_source
\* distinct eligible URLs (no video or social link) in merge order, Exa's
\* before Google's; at most 2*max_results_per_source extractions are
\* attempted, and content_fetched lists the successful ones in that order.
C12_ExtractionCap ==
    sPc = "returned" =>
        LET merged == UrlsOf(sOutcome.value.exa.results) \o UrlsOf(sOutcome.value.google.results)
            cap == 2 * sArgs.max_results_per_source
        IN  /\ UrlsOf(Chosen) = Prefix(DistinctEligible(merged, <<>>), cap)
            /\ Len(Chosen) <= cap
            /\ UrlsOf(sOutcome.value.content_fetched) = Readable(UrlsOf(Chosen), sOracle.jina)

\* Jina fails on the URL: a result with success false, or an exception
ReadFails(jina, url) == ~(jina[url].kind = "return" /\ jina[url].value.success)

\* the entries of a content list that are not about the URL
Without(contents, url) == SelectSeq(contents, LAMBDA c : c.url # url)

\* a read of the URL that succeeds
GoodRead == [kind |-> "return",
             value |-> [success |-> TRUE, title |-> "page title", word_count |-> 7]]

\* C13: when the extraction of one selected URL fails (success false or an
\* exception), every other selected URL is still read: each one Jina reads
\* with success has its entry in content_fetched, and the entries of the
\* other URLs are those the call would have produced had the failing URL
\* been read with success.
C13_ExtractionFailureIsolated ==
    sPc = "returned" =>
        \A chosen \in {Chosen}, fetched \in {sOutcome.value.content_fetched} :
            \A k \in 1..Len(chosen) :
                ReadFails(sOracle.jina, chosen[k].url) =>
                    /\ \A i \in 1..Len(chosen) :
                           ~ReadFails(sOracle.jina, chosen[i].url)
                               => chosen[i].url \in Elems(UrlsOf(fetched))
                    /\ fetched =
                           Without(FetchContent(chosen,
                                                [sOracle.jina EXCEPT ![chosen[k].url] = GoodRead]),
                                   chosen[k].url)

\* three URLs were selected; the first read raised, the second came back
\* with success false, and the third is in content_fetched
C13_Witness ==
    /\ sPc = "returned"
    /\ Len(Chosen) = 3
    /\ sOracle.jina[Chosen[1].url].kind = "raise"
    /\ sOracle.jina[Chosen[2].url].kind = "return"
    /\ ~sOracle.jina[Chosen[2].url].value.success
    /\ UrlsOf(sOutcome.value.content_fetched) = <<Chosen[3].url>>

\* C14: every selected URL whose extraction fails is recorded in the result
\* as an entry of its own with success false and an error reason.
C14_ExtractionFailureRecorded ==
    sPc = "returned" =>
        \A chosen \in {Chosen}, fetched \in {sOutcome.value.content_fetched} :
            \A k \in 1..Len(chosen) :
                ReadFails(sOracle.jina, chosen[k].url) =>
                    \E i \in 1..Len(fetched) :
                        /\ fetched[i].url = chosen[k].url
                        /\ Has(fetched[i], "success")
                        /\ ~fetched[i].success
                        /\ Has(fetched[i], "error")

----------------------------------------------------------------------------
(* Properties of batch_scrape *)

Count(disposition) ==
    Cardinality({i \in 1..Len(bFounders) : bDisp[bRun][i] = disposition})

C4_ResumptionIdempotent ==
    (bRun = 2 /\ bPc \in {"loop", "finished"}) =>
        \A i \in 1..Len(bFounders) :
            /\ bDisp[1][i] = "success" =>
                  LET path == BatchOutputPath(FullName(bFounders[i]))
                  IN  /\ bDisp[2][i] \in {"none", "exists"}
                      /\ Has(bFsBefore, path)
                      /\ Has(bFs, path)
                      /\ bFs[path] = bFsBefore[path]
            /\ bDisp[2][i] \in {"success", "failed"} => bDisp[1][i] # "success"

\* a finished second run that skipped a row the first run had scraped and
\* scraped a row the first run had failed on
C4_Witness ==
    /\ bRun = 2
    /\ bPc = "finished"
    /\ \E i, j \in 1..Len(bFounders) :
          /\ bDisp[1][i] = "success" /\ bDisp[2][i] = "exists"
          /\ bDisp[1][j] = "failed" /\ bDisp[2][j] = "success"

\* C9: when every source the scraper queries returns zero results (and the
\* file system accepts the writes), the call completes, the artifact of the
\* identity's slug exists and reports zero results, and the batch counts the
\* row as a success, not as a failure.
C9_ZeroResultsIsSuccess ==
    (bLast.scraped /\ bLast.zero /\ bLast.io = "ok") =>
        LET path == BatchOutputPath(FullName(bFounders[bLast.index]))
        IN  /\ bPc # "aborted"
            /\ bDisp[bRun][bLast.index] = "success"
            /\ bStats.success >= 1
            /\ Has(bFs, path)
            /\ bFs[path].text = "markdown"
            /\ bFs[path].founder = FullName(bFounders[bLast.index])
            /\ bFs[path].summary = <<0, 0, 0>>

\* a batch whose only scrape found nothing anywhere, with all three sources
\* configured, and counted one success and no failure
C9_Witness ==
    /\ bPc = "finished"
    /\ bLast.scraped /\ bLast.zero /\ bLast.io = "ok"
    /\ bScraper.youtube /\ bScraper.google
    /\ bStats = [success |-> 1, failed |-> 0, skipped |-> 0]

\* C24: in a run that starts with no output artifact, scrape_and_save is
\* invoked exactly once for every row at index >= start_from whose full name
\* is not empty; none is skipped as already existing because of an artifact
\* another row of the same run wrote.
C24_EveryNamedRowScraped ==
    (bRun = 1 /\ bPc = "finished") =>
        \A i \in 1..Len(bFounders) :
            (i - 1 >= bStartFrom /\ FullName(bFounders[i]) # <<>>) =>
                bDisp[1][i] \in {"success", "failed"}

\* C25: when scrape_and_save raises for an identity, so that the row is
\* counted as failed, no output artifact of that identity exists afterwards,
\* and a later run does not skip the row: it processes it again.
C25_FailureLeavesNoArtifact ==
    /\ (bLast.scraped /\ bDisp[bRun][bLast.index] = "failed") =>
           ~Has(bFs, BatchOutputPath(FullName(bFounders[bLast.index])))
    /\ bRun = 2 =>
           \A i \in 1..Len(bFounders) :
               (bDisp[1][i] = "failed" /\ bDisp[2][i] # "none") =>
                   bDisp[2][i] \in {"success", "failed"}

\* C28: at the end of batch_scrape, success + failed + skipped is the number
\* of rows at index >= start_from: each of them is counted in exactly one of
\* the three counters and the rows before start_from in none.
C28_CountersPartitionRows ==
    bPc = "finished" =>
        /\ bStats.success + bStats.failed + bStats.skipped =
               Cardinality({i \in 1..Len(bFounders) : i - 1 >= bStartFrom})
        /\ bStats.success = Count("success")
        /\ bStats.failed = Count("failed")
        /\ bStats.skipped = Count("no_name") + Count("exists")
        /\ \A i \in 1..Len(bFounders) :
               i - 1 < bStartFrom <=> bDisp[bRun][i] = "before_start"

\* a run that leaves out its first row, fails on one row and skips another
C28_Witness ==
    /\ bPc = "finished"
    /\ bStartFrom = 1
    /\ Len(bFounders) = 2
    /\ bStats.failed + bStats.skipped = 1
    /\ bStats.success = 0

\* the records the call to one source returned
CallRecords(outcome, listKey) ==
    IF outcome.kind = "return" THEN Elems(Get(outcome.value, listKey, <<>>)) ELSE {}

\* every record of a result was returned by a call of the oracle
OnlyFromCalls(results, oracle) ==
    /\ Elems(results.exa.results) \subseteq CallRecords(oracle.exa, "results")
    /\ Elems(results.youtube.results) \subseteq CallRecords(oracle.youtube, "all_videos")
    /\ Elems(results.google.results) \subseteq CallRecords(oracle.google, "all_results")
    /\ \A c \in Elems(results.content_fetched) :
           /\ \E r \in CallRecords(oracle.exa, "results")
                        \cup CallRecords(oracle.google, "all_results") : r.url = c.url
           /\ oracle.jina[c.url].kind = "return"

----------------------------------------------------------------------------
(* Properties of the call sites of the relevance filter *)

\* C15: a chat completion is asked for only when a language-model backend is
\* configured and there is at least one candidate; in every other case none
\* is asked for and the candidates go on unchanged and unscored.
C15_ModelCallOnlyWhenNeeded ==
    rPc = "returned" =>
        /\ rCalls > 0 => (rKey /\ rResults # <<>>)
        /\ (~rKey \/ rResults = <<>>) => (rCalls = 0 /\ rOutcome = Returned(rResults))
        /\ rCalls = 0 => rOutcome = Returned(rResults)

\* search_person_content asked for a chat completion and went on with a
\* list other than the candidates
C15_Witness ==
    /\ rPc = "returned"
    /\ rSite = "search_person_content"
    /\ rKey /\ rResults # <<>>
    /\ rCalls = 1
    /\ rOutcome # Returned(rResults)

\* the decisions of the response the binary check got, when it parses
ParsedDecisions == LoadDecisions(StripFence(rResponse.content))

\* the candidates some decision keeps
KeptCandidates ==
    {rResults[i + 1] : i \in {j \in 0..(Len(rResults) - 1) :
        \E k \in 1..Len(ParsedDecisions.decisions) :
            LET d == ParsedDecisions.decisions[k]
            IN  Has(d, "index") /\ Has(d, "action") /\ d.index = j /\ d.action = "keep"}}

\* C16: check_relevance_batch raises nothing; when the chat completion fails
\* or its text is no object with a "decisions" array of indexed decisions it
\* returns the candidates unchanged; when every decision has its index and
\* action it returns exactly the candidates some decision keeps.
C16_BinaryFallbackPolicy ==
    (rPc = "returned" /\ rSite = "check_relevance_batch" /\ rKey /\ rResults # <<>>) =>
        /\ rOutcome.kind = "return"
        /\ (rResponse.kind = "api_error" \/ ~ParsedDecisions.ok)
              => rOutcome.value = rResults
        /\ (rResponse.kind = "message" /\ ParsedDecisions.ok) =>
              LET ds == ParsedDecisions.decisions
              IN  /\ (\E k \in 1..Len(ds) : ~Has(ds[k], "index"))
                        => rOutcome.value = rResults
                  /\ (\A k \in 1..Len(ds) : Has(ds[k], "index") /\ Has(ds[k], "action"))
                        => Elems(rOutcome.value) = KeptCandidates

----------------------------------------------------------------------------
(* Properties of the normalizers *)

\* C18: normalizing a provider's raw record never raises, whichever of its
\* fields are absent or null, and a field that is absent or null is None in
\* the normalized record.
C18_NormalizeNeverRaises ==
    nPc = "returned" =>
        /\ nOutcome.kind = "return"
        /\ nProvider = "exa" =>
              \A k \in {"title", "url"} :
                  GetValue(nItem, k) = None => nOutcome.value[k] = None

----------------------------------------------------------------------------
(* Properties of wait_for_completion *)

\* the clock bound of the model is never what stops a step
ClockBoundUnreached ==
    wPc \in {"poll", "get_output", "sleep"} => wNow + MaxCall + MaxPoll <= MaxClock

\* C19: wait_for_completion never hangs: whatever the remote job reports, the
\* call ends, and when no request to the API failed it ends by returning the
\* job's output, by raising the job's failure, or by raising a timeout error
\* once the timeout has elapsed.
C19_WaitNeverHangs ==
    /\ <>(wPc = "done")
    /\ [](wPc = "done" =>
            \/ wOutcome = Returned("output")
            \/ wOutcome = RaisedWith("PhantomFailed")
            \/ wOutcome = RaisedWith("TimeoutError") /\ wNow - wStart >= wArgs.timeout
            \/ wOutcome = RaisedWith("HTTPError"))

\* the job never completed while it was polled, and the wait timed out
C19_Witness ==
    /\ wPc = "done"
    /\ wInitial.known
    /\ wOutcome = RaisedWith("TimeoutError")

----------------------------------------------------------------------------
(* Properties of scrape_linkedin_profile *)

\* C26: after launch_phantom started a run, wait_for_completion returns the
\* run's output whenever the run ends as finished before the timeout, also
\* when the agent had already counted the run, or the run had already ended,
\* at the first poll.
C26_FinishedRunReturned ==
    (wPc = "done" /\ jSeen) =>
        wOutcome \in {Returned("output"), RaisedWith("HTTPError")}

----------------------------------------------------------------------------
(* Properties of the category buckets *)

\* the category buckets of the dict a search returns
Buckets ==
    IF oSite = "youtube"
    THEN {"interviews", "podcasts", "talks", "own_content", "mentions"}
    ELSE {"podcast_episodes", "video_appearances", "written_interviews", "articles",
          "talks"}

\* how many times a record occurs in a list
Occurrences(list, record) == Cardinality({k \in 1..Len(list) : list[k] = record})

RECURSIVE SumOfSizes(_)
SumOfSizes(buckets) ==
    IF buckets = {} THEN 0
    ELSE LET b == CHOOSE x \in buckets : TRUE
         IN  Len(oResults[b]) + SumOfSizes(buckets \ {b})

\* C30: in the dict returned by search_person_content and by
\* search_media_appearances every record of the final list is in exactly one
\* category bucket, so that the bucket sizes sum to total_found, whatever the
\* record's category field holds (absent and unknown values included).
C30_BucketsPartitionResults ==
    oPc = "returned" =>
        /\ SumOfSizes(Buckets) = oResults.total_found
        /\ oResults.total_found = Len(oFiltered)
        /\ \A record \in Elems(oFiltered) :
               \E b \in Buckets :
                   /\ Occurrences(oResults[b], record) = Occurrences(oFiltered, record)
                   /\ \A other \in Buckets \ {b} : Occurrences(oResults[other], record) = 0

\* a record without category and a record of a category no branch names
C30_Witness ==
    /\ oPc = "returned"
    /\ oSite = "youtube"
    /\ Len(oFiltered) = 2
    /\ ~Has(oFiltered[1], "category")
    /\ Has(oFiltered[2], "category") /\ oFiltered[2].category = "irrelevant"
    /\ Len(oResults.mentions) = 2

====
